---- MODULE Spec2Model ----
(***************************************************************************)
(* Phase coordinator of ScrAI: PhaseEngine.step / run_cycle, the phase     *)
(* handlers, the entity store behind them, the API routes that call the    *)
(* engine under per-simulation locks, and the SSE notification fan-out.    *)
(***************************************************************************)
EXTENDS Integers, Sequences, FiniteSets, TLC

\* ------------------------------------------------------------------ bounds
\* Largest max_phases a simulation is created with.
MaxCycles == 2
\* Longest phase log a simulation may have when a new call is started.
MaxLog == 12
\* Number of API requests / engine calls started in one run of the API model.
MaxOps == 2
\* Number of start requests in one run of the stream model.
MaxPublish == 34
\* Calls of step started in one run of the two-caller engine model.
MaxCalls == 4
\* Requests one API client sends in the single-client model.
MaxRequests == 8
\* Events one stream connection takes from its queue.
MaxConsume == 1

\* ------------------------------------------------------------- vocabulary
Tasks == {"t1", "t2"}
Sims == {"s1", "s2"}
EngineSims == {"s1"}
\* The CLI runs one engine call per command.
EngineTasks == {"t1"}
Backends == {"memory", "firestore"}
Queues == {"q1", "q2"}
\* asyncio.Queue(maxsize=32) in subscribe_to_stream
QueueCap == 32

INITIALIZE == "initialize"
EVENT_GENERATION == "event_generation"
ACTION_COLLECTION == "action_collection"
ACTION_RESOLUTION == "action_resolution"
WORLD_UPDATE == "world_update"
SNAPSHOT == "snapshot"
PAUSED == "paused"
COMPLETED == "completed"

SimulationPhase ==
    {INITIALIZE, EVENT_GENERATION, ACTION_COLLECTION, ACTION_RESOLUTION,
     WORLD_UPDATE, SNAPSHOT, PAUSED, COMPLETED}

SimulationStatus == {"created", "running", "paused", "completed", "error"}

_DEFAULT_PHASE_ORDER ==
    <<INITIALIZE, EVENT_GENERATION, ACTION_COLLECTION, ACTION_RESOLUTION,
      WORLD_UPDATE, SNAPSHOT>>

InOrder(phase) == \E i \in 1..Len(_DEFAULT_PHASE_ORDER) : _DEFAULT_PHASE_ORDER[i] = phase

\* The phases _default_handlers registers a handler for.
RegistryPhases == {_DEFAULT_PHASE_ORDER[i] : i \in 1..Len(_DEFAULT_PHASE_ORDER)}

\* No record under this id (Repository.get returns None).
NoSim == [id |-> "none"]
NoResult == [executed_phase |-> "none", next_phase |-> "none"]

\* Entity ids. Scenario seeding uses the fixed ids of simple_town.py; generated
\* events ("event-<uuid>") and injected actions ("act-<uuid>") draw fresh ids.
SeedActor == "actor-mayor"
OtherActor == "actor-x"
ActorIds == {SeedActor, OtherActor}
\* Gateway-generated events in one run (ids 1..MaxGen; 0 is the seeded event).
MaxGen == 1
\* Injected actions in one run (ids 1..MaxInject; 0 is the seeded action).
MaxInject == 1
SeedEvent == 0
SeedAction == 0
EventIds == 0..MaxGen
ActionIds == 0..MaxInject

Range(seq) == {seq[i] : i \in 1..Len(seq)}

\* SimulationState as create_simulation / simulation_create build it.
NewSimulation(s, maxp, registered) ==
    [id |-> s,
     status |-> "created",
     started_at |-> FALSE,
     current_phase |-> INITIALIZE,
     phase_number |-> 0,
     max_phases |-> maxp,
     scenario_registered |-> registered,
     seeded |-> FALSE,
     active_actor_ids |-> << >>,
     pending_event_ids |-> << >>,
     pending_action_ids |-> << >>,
     snapshot_count |-> 0,
     snapshots |-> << >>,
     phase_log |-> << >>]

VARIABLES
    backend,        \* which Entity Store backend the runtime was built with
    llm,            \* whether a generative gateway (llm_service) is configured
    store,          \* simulations collection as Repository.get sees it
    disk,           \* local backend: the simulations collection in the state file
    actors,         \* actors collection: the ids that exist
    events,         \* events collection: id -> status ("none" when absent)
    actions,        \* actions collection: id -> status ("none" when absent)
    engine_lock,    \* PhaseEngine._lock: "free" or the task holding it
    sim_locks,      \* RuntimeManager._locks: per id "absent", "free" or the holder
    tasks,          \* per task: the call it is running and its locals
    sub_keys,       \* keys of RuntimeManager._stream_subscribers
    subscribers,    \* RuntimeManager._stream_subscribers: id -> set of queues
    queues,         \* content of each subscriber queue, oldest first
    clients,        \* per stream connection: where its handler stands
    published,      \* stream events built so far (the clock their ts is read from)
    sent,           \* per queue: every event put into it since it was created
    cpu,            \* the coroutine that runs on without yielding, or "none"
    ops             \* calls that may still be started (-1: no limit)

storeVars == <<store, disk, actors, events, actions>>
streamVars == <<sub_keys, subscribers, queues, clients, published, sent>>
cfgVars == <<backend, llm>>
vars == <<backend, llm, store, disk, actors, events, actions,
          engine_lock, sim_locks, tasks, sub_keys, subscribers, queues,
          clients, published, sent, cpu, ops>>

IdleTask ==
    [op |-> "none", sim |-> "s1", pc |-> "idle", force |-> "none",
     loc |-> NoSim, result |-> NoResult, err |-> "none",
     results |-> << >>, iter |-> 0, api |-> NoSim, actor |-> "none", ret |-> "none",
     reply |-> "none"]

\* ------------------------------------------------------------ SimulationState
\* A start that stamps the time and leaves the status.
start_without_status(sim) == [sim EXCEPT !.started_at = TRUE]

start(sim) == [sim EXCEPT !.status = "running", !.started_at = TRUE]

pause(sim) == [sim EXCEPT !.status = "paused", !.current_phase = PAUSED]

resume(sim) == IF sim.status = "paused" THEN [sim EXCEPT !.status = "running"] ELSE sim

complete(sim) == [sim EXCEPT !.status = "completed", !.current_phase = COMPLETED]

\* An add_actor that appends without looking.
add_actor_unguarded(sim, a) ==
    [sim EXCEPT !.active_actor_ids = Append(@, a)]

add_actor(sim, a) ==
    IF a \in Range(sim.active_actor_ids) THEN sim
    ELSE [sim EXCEPT !.active_actor_ids = Append(@, a)]

add_pending_event(sim, e) ==
    IF e \in Range(sim.pending_event_ids) THEN sim
    ELSE [sim EXCEPT !.pending_event_ids = Append(@, e)]

add_pending_action(sim, a) ==
    IF a \in Range(sim.pending_action_ids) THEN sim
    ELSE [sim EXCEPT !.pending_action_ids = Append(@, a)]

record_snapshot(sim) == [sim EXCEPT !.snapshot_count = @ + 1]

\* ------------------------------------------------------------ phase handlers
\* A handler reads the loaded simulation and the entity collections and returns
\* its PhaseResult together with the collections as its repository calls leave
\* them. reply is what the gateway call (if the handler makes one) came back with.
Result(sim, executed, next, ac, ev, an) ==
    [simulation |-> sim, executed_phase |-> executed, next_phase |-> next,
     actors |-> ac, events |-> ev, actions |-> an]

InitializeRun(sim) ==
    LET s1 == IF sim.status = "created" THEN start(sim)
              ELSE IF sim.status = "paused" THEN resume(sim)
              ELSE sim
    IN Result([s1 EXCEPT !.current_phase = INITIALIZE],
              INITIALIZE, EVENT_GENERATION, actors, events, actions)

\* Ids for n new events: the n smallest unused generated ids.
RECURSIVE FreshEvents(_, _)
FreshEvents(ev, n) ==
    IF n = 0 \/ ~\E e \in 1..MaxGen : ev[e] = "none" THEN << >>
    ELSE LET e == CHOOSE x \in 1..MaxGen :
                     ev[x] = "none" /\ \A y \in 1..MaxGen : ev[y] = "none" => x <= y
         IN <<e>> \o FreshEvents([ev EXCEPT ![e] = "pending"], n - 1)

RECURSIVE AddPendingEvents(_, _)
AddPendingEvents(sim, ids) ==
    IF ids = << >> THEN sim
    ELSE AddPendingEvents(add_pending_event(sim, Head(ids)), Tail(ids))

\* _persist_generated_entities for the scenario's seed batch.
PersistSeed(sim) ==
    LET s1 == add_pending_action(add_pending_event(add_actor(sim, SeedActor), SeedEvent),
                                 SeedAction)
    IN Result(s1, EVENT_GENERATION, ACTION_COLLECTION,
              actors \cup {SeedActor},
              IF events[SeedEvent] = "none" THEN [events EXCEPT ![SeedEvent] = "pending"]
              ELSE events,
              IF actions[SeedAction] = "none" THEN [actions EXCEPT ![SeedAction] = "pending"]
              ELSE actions)

\* How often one run of a handler calls ScenarioService.before_phase and
\* ScenarioService.after_phase: no handler, and nothing else in the engine, the
\* API or the CLI, calls either; Scenario.seed is the only scenario method used.
ScenarioHookCalls(phase, sim) == [before_phase |-> 0, after_phase |-> 0]

\* reply.events: how many events the gateway's reply yields; a failed call and
\* an unparseable reply yield none.
EventGenerationRun(sim, reply) ==
    IF ~sim.scenario_registered
    THEN Result(sim, EVENT_GENERATION, ACTION_COLLECTION, actors, events, actions)
    ELSE IF ~sim.seeded
    THEN PersistSeed([sim EXCEPT !.seeded = TRUE])
    ELSE LET ids == IF llm /\ reply.kind = "ok"
                    THEN FreshEvents(events, reply.events) ELSE << >>
         IN Result(AddPendingEvents(sim, ids), EVENT_GENERATION, ACTION_COLLECTION,
                   actors,
                   [e \in EventIds |-> IF e \in Range(ids) THEN "pending" ELSE events[e]],
                   actions)

\* An action_collection that keeps only the actions still pending, newest
\* first.
RECURSIVE Reversed(_)
Reversed(seq) ==
    IF seq = << >> THEN << >> ELSE Append(Reversed(Tail(seq)), Head(seq))

ActionCollectionRun_reversing(sim) ==
    Result([sim EXCEPT !.pending_action_ids =
                Reversed(SelectSeq(@, LAMBDA a : actions[a] \notin {"none", "completed", "cancelled"}))],
           ACTION_COLLECTION, ACTION_RESOLUTION, actors, events, actions)

ActionCollectionRun(sim) ==
    Result([sim EXCEPT !.pending_action_ids =
                SelectSeq(@, LAMBDA a : actions[a] \notin {"none", "completed", "cancelled"})],
           ACTION_COLLECTION, ACTION_RESOLUTION, actors, events, actions)

\* An action_resolution that resolves nothing when no gateway is configured.
ActionResolutionRun_gateway_only(sim, reply) ==
    IF sim.pending_action_ids = << >>
    THEN Result(sim, ACTION_RESOLUTION, WORLD_UPDATE, actors, events, actions)
    ELSE LET pending == {a \in Range(sim.pending_action_ids) : actions[a] = "pending"}
             called == llm /\ pending # {}
             resolved == IF ~called THEN {}
                         ELSE IF reply.kind = "fail" THEN pending
                         ELSE IF reply.kind = "malformed" THEN {}
                         ELSE reply.resolved \cap {a \in ActionIds : actions[a] # "none"}
             ids == IF called /\ reply.kind = "ok"
                    THEN FreshEvents(events, reply.events) ELSE << >>
         IN Result(AddPendingEvents(sim, ids), ACTION_RESOLUTION, WORLD_UPDATE,
                   actors,
                   [e \in EventIds |-> IF e \in Range(ids) THEN "pending" ELSE events[e]],
                   [a \in ActionIds |-> IF a \in resolved THEN "completed" ELSE actions[a]])

\* reply.kind "fail": the gateway call raised, every pending action gets the
\* fallback resolution; "ok": the parsed reply resolves the actions in
\* reply.resolved and yields reply.events consequent events; "malformed": the
\* reply is not the JSON array asked for, parse_llm_json_response returns []
\* and there are no resolutions and no events.
ActionResolutionRun(sim, reply) ==
    IF sim.pending_action_ids = << >>
    THEN Result(sim, ACTION_RESOLUTION, WORLD_UPDATE, actors, events, actions)
    ELSE LET pending == {a \in Range(sim.pending_action_ids) : actions[a] = "pending"}
             called == llm /\ pending # {}
             resolved == IF ~called \/ reply.kind = "fail" THEN pending
                         ELSE IF reply.kind = "malformed" THEN {}
                         ELSE reply.resolved \cap {a \in ActionIds : actions[a] # "none"}
             ids == IF called /\ reply.kind = "ok"
                    THEN FreshEvents(events, reply.events) ELSE << >>
         IN Result(AddPendingEvents(sim, ids), ACTION_RESOLUTION, WORLD_UPDATE,
                   actors,
                   [e \in EventIds |-> IF e \in Range(ids) THEN "pending" ELSE events[e]],
                   [a \in ActionIds |-> IF a \in resolved THEN "completed" ELSE actions[a]])

\* A world_update that clears the list without resolving its events.
WorldUpdateRun_clear_only(sim) ==
    Result([sim EXCEPT !.pending_event_ids = << >>],
           WORLD_UPDATE, SNAPSHOT, actors, events, actions)

WorldUpdateRun(sim) ==
    Result([sim EXCEPT !.pending_event_ids = << >>],
           WORLD_UPDATE, SNAPSHOT, actors,
           [e \in EventIds |->
               IF e \in Range(sim.pending_event_ids) /\ events[e] # "none"
               THEN "resolved" ELSE events[e]],
           actions)

\* A snapshot handler proposing the wrong next phase.
SnapshotRun_skips_generation(sim) ==
    Result([record_snapshot(sim) EXCEPT !.snapshots = Append(@, sim.phase_number)],
           SNAPSHOT, ACTION_COLLECTION, actors, events, actions)

SnapshotRun(sim) ==
    Result([record_snapshot(sim) EXCEPT !.snapshots = Append(@, sim.phase_number)],
           SNAPSHOT, EVENT_GENERATION, actors, events, actions)

\* PhaseHandlerRegistry.get(phase).run(context)
HandlerRun(phase, sim, reply) ==
    CASE phase = INITIALIZE -> InitializeRun(sim)
      [] phase = EVENT_GENERATION -> EventGenerationRun(sim, reply)
      [] phase = ACTION_COLLECTION -> ActionCollectionRun(sim)
      [] phase = ACTION_RESOLUTION -> ActionResolutionRun(sim, reply)
      [] phase = WORLD_UPDATE -> WorldUpdateRun(sim)
      [] phase = SNAPSHOT -> SnapshotRun(sim)

\* The gateway replies a handler can receive.
Replies ==
    [kind : {"ok", "fail", "malformed"}, resolved : SUBSET ActionIds, events : 0..MaxGen]

NoReply == [kind |-> "ok", resolved |-> {}, events |-> 0]

\* Whether running `phase` on `sim` awaits the gateway.
CallsGateway(phase, sim) ==
    /\ llm
    /\ \/ phase = EVENT_GENERATION /\ sim.scenario_registered /\ sim.seeded
       \/ phase = ACTION_RESOLUTION
            /\ \E a \in Range(sim.pending_action_ids) : actions[a] = "pending"
       \/ phase = WORLD_UPDATE
            /\ \E e \in Range(sim.pending_event_ids) : events[e] # "none"

\* ------------------------------------------------------------ PhaseEngine
\* PhaseEngineConfig.enforce_phase_sequence: every engine of the repository is
\* built with the default configuration.
enforce_phase_sequence == TRUE

\* A sequence check that only asks for a canonical phase.
_verify_phase_allowed_any_canonical(phase, sim) ==
    IF ~enforce_phase_sequence THEN "ok"
    ELSE IF ~InOrder(phase) THEN "UnexpectedPhase"
    ELSE "ok"

\* _verify_phase_allowed: "ok" or the error it raises.
_verify_phase_allowed(phase, sim) ==
    IF ~enforce_phase_sequence THEN "ok"
    ELSE IF ~InOrder(phase) THEN "UnexpectedPhase"
    ELSE IF phase # sim.current_phase THEN "UnexpectedPhase"
    ELSE "ok"

\* A completion rule that lets one cycle too many run.
_update_cycle_progress_late(sim, result) ==
    LET bumped == IF result.executed_phase = SNAPSHOT
                  THEN [sim EXCEPT !.phase_number = @ + 1]
                  ELSE sim
        done == result.executed_phase = SNAPSHOT /\ bumped.phase_number > bumped.max_phases
        s2 == IF done THEN complete(bumped) ELSE bumped
        next_phase == IF done THEN COMPLETED ELSE result.next_phase
    IN IF s2.status = "running" THEN [s2 EXCEPT !.current_phase = next_phase]
       ELSE IF s2.status = "completed" THEN [s2 EXCEPT !.current_phase = COMPLETED]
       ELSE s2

\* _update_cycle_progress
_update_cycle_progress(sim, result) ==
    LET bumped == IF result.executed_phase = SNAPSHOT
                  THEN [sim EXCEPT !.phase_number = @ + 1]
                  ELSE sim
        done == result.executed_phase = SNAPSHOT /\ bumped.phase_number >= bumped.max_phases
        s2 == IF done THEN complete(bumped) ELSE bumped
        next_phase == IF done THEN COMPLETED ELSE result.next_phase
    IN IF s2.status = "running" THEN [s2 EXCEPT !.current_phase = next_phase]
       ELSE IF s2.status = "completed" THEN [s2 EXCEPT !.current_phase = COMPLETED]
       ELSE s2

\* _apply_phase_result up to the write-back: the record handed to update().
_apply_phase_result(result) ==
    LET logged == [result.simulation EXCEPT
                      !.phase_log = Append(@, result.executed_phase)]
    IN _update_cycle_progress(logged, result)


\* A state file that does not parse (a write that broke off after the file was
\* truncated).
CorruptFile == {<<"corrupt", NoSim>>}

\* A _sync that writes an empty collection whatever the data.
_sync_empty(data) == {}

\* LocalStateStore._sync: the whole collection dumped as one JSON object, a
\* set of key/payload members.
_sync(data) == {<<s, data[s]>> : s \in {x \in Sims : data[x] # NoSim}}

\* LocalStateStore._load: what a store opened on the file starts with; a file
\* that does not parse leaves the empty defaults.
_load(file) ==
    [s \in Sims |->
        IF file # CorruptFile /\ \E m \in file : m[1] = s
        THEN (CHOOSE m \in file : m[1] = s)[2]
        ELSE NoSim]

\* Repository.update(simulation_id, simulation.to_dict()) succeeding: every
\* field of the stored record is replaced; the local backend then flushes.
PutSim(s, rec) ==
    /\ store' = [store EXCEPT ![s] = rec]
    /\ disk' = IF backend = "memory" THEN _sync(store') ELSE disk

\* The same call failing on backend I/O. LocalStateStore.put assigns the
\* payload before _sync raises; a Firestore update that raises changes nothing.
PutSimFails(s, rec) ==
    /\ store' = IF backend = "memory" THEN [store EXCEPT ![s] = rec] ELSE store
    /\ disk' = disk

\* ---- cooperative scheduling (asyncio)
\* A coroutine runs until an await really suspends. Awaiting the local
\* backend never suspends; awaiting Firestore, the gateway, a held lock or an
\* empty queue does.
Run(me) == cpu \in {"none", me}

AfterStoreAwait(me) == IF backend = "memory" THEN me ELSE "none"

AfterLockRequest(me, lock) == IF lock \in {"free", "absent"} THEN me ELSE "none"

\* An exception leaves every `async with` on the way out, so the locks the
\* task holds are released in the same move, and the call ends.
Raise(t, kind) ==
    /\ tasks' = [tasks EXCEPT ![t] = [@ EXCEPT !.pc = "idle", !.err = kind,
                                         !.force = "none", !.loc = NoSim,
                                         !.api = NoSim, !.reply = "none"]]
    /\ engine_lock' = IF engine_lock = t THEN "free" ELSE engine_lock
    /\ sim_locks' = [s \in Sims |-> IF sim_locks[s] = t THEN "free" ELSE sim_locks[s]]
    /\ cpu' = "none"

\* ---- PhaseEngine.step
\* A step that goes on without holding the engine's lock.
StepRequested_without_lock(t) ==
    /\ tasks[t].pc = "e_lock"
    /\ Run(t)
    /\ engine_lock' = engine_lock
    /\ tasks' = [tasks EXCEPT ![t] = [@ EXCEPT !.pc = "e_load"]]
    /\ cpu' = AfterStoreAwait(t)
    /\ UNCHANGED <<cfgVars, storeVars, sim_locks, streamVars, ops>>

\* async with self._lock
StepRequested(t) ==
    /\ tasks[t].pc = "e_lock"
    /\ Run(t)
    /\ engine_lock = "free"
    /\ engine_lock' = t
    /\ tasks' = [tasks EXCEPT ![t] = [@ EXCEPT !.pc = "e_load"]]
    /\ cpu' = AfterStoreAwait(t)
    /\ UNCHANGED <<cfgVars, storeVars, sim_locks, streamVars, ops>>

\* _load_simulation, the terminal-state check, _verify_phase_allowed and the
\* registry lookup: "ok" or the error step raises.
StepCheck(rec, force) ==
    IF rec = NoSim THEN "NotFound"
    ELSE LET phase_to_run == IF force = "none" THEN rec.current_phase ELSE force
         IN IF rec.status \in {"completed", "error"} THEN "TerminalState"
            ELSE IF _verify_phase_allowed(phase_to_run, rec) # "ok"
                 THEN _verify_phase_allowed(phase_to_run, rec)
            ELSE IF phase_to_run \notin RegistryPhases THEN "NoHandler"
            ELSE "ok"

StepLoad(t) ==
    LET me == tasks[t]
        rec == store[me.sim]
        verdict == StepCheck(rec, me.force)
        phase_to_run == IF me.force = "none" THEN rec.current_phase ELSE me.force
    IN /\ me.pc = "e_load"
       /\ Run(t)
       /\ engine_lock = t
       /\ IF verdict = "ok"
          THEN /\ tasks' = [tasks EXCEPT ![t] = [@ EXCEPT
                      !.pc = "handler", !.loc = rec, !.force = phase_to_run]]
               /\ cpu' = IF CallsGateway(phase_to_run, rec) THEN "none"
                         ELSE AfterStoreAwait(t)
               /\ UNCHANGED <<engine_lock, sim_locks>>
          ELSE Raise(t, verdict)
       /\ UNCHANGED <<cfgVars, storeVars, streamVars, ops>>

\* handler.run(context) returning its PhaseResult.
StepHandler(t) ==
    LET me == tasks[t] IN
    /\ me.pc = "handler"
    /\ Run(t)
    /\ \E reply \in Replies :
          /\ CallsGateway(me.force, me.loc) \/ reply = NoReply
          /\ LET r == HandlerRun(me.force, me.loc, reply) IN
             /\ tasks' = [tasks EXCEPT ![t] = [@ EXCEPT
                    !.pc = "apply",
                    !.reply = IF CallsGateway(me.force, me.loc) THEN reply.kind
                              ELSE "none",
                    !.loc = r.simulation,
                    !.result = [executed_phase |-> r.executed_phase,
                                next_phase |-> r.next_phase]]]
             /\ actors' = r.actors
             /\ events' = r.events
             /\ actions' = r.actions
    /\ cpu' = AfterStoreAwait(t)
    /\ UNCHANGED <<cfgVars, store, disk, engine_lock, sim_locks, streamVars, ops>>

\* handler.run(context) raising: a repository call fails, or a gateway reply has
\* a shape the handler does not guard against.
StepHandlerRaises(t) ==
    /\ tasks[t].pc = "handler"
    /\ Run(t)
    /\ Raise(t, "HandlerError")
    /\ UNCHANGED <<cfgVars, storeVars, streamVars, ops>>

\* handler.run(context) raising on a parsed gateway reply: action_resolution
\* hands a truthy non-dict `actor_effects` to _apply_actor_effects, world_update
\* iterates `actor_updates` and calls .get on each entry; neither is inside a
\* try.  Resolutions that precede the malformed one have already been written.
StepHandlerBadReply(t) ==
    LET me == tasks[t]
        pending == {a \in Range(me.loc.pending_action_ids) : actions[a] = "pending"}
    IN
    /\ me.pc = "handler"
    /\ Run(t)
    /\ me.force \in {ACTION_RESOLUTION, WORLD_UPDATE}
    /\ CallsGateway(me.force, me.loc)
    /\ \E done \in SUBSET pending :
          /\ me.force = WORLD_UPDATE => done = {}
          /\ done # pending
          /\ actions' = [a \in ActionIds |-> IF a \in done THEN "completed" ELSE actions[a]]
    /\ Raise(t, "AttributeError")
    /\ UNCHANGED <<cfgVars, store, disk, actors, events, streamVars, ops>>

\* Where a task goes when step returns its result.
AfterStep(me) ==
    CASE me.op = "step" -> "idle"
      [] me.op = "cycle" -> "c_after"
      [] me.op = "advance" -> "a_reload"

\* The record step writes back: the handler's simulation with the result applied.
WriteBack(me) ==
    _apply_phase_result([simulation |-> me.loc,
                         executed_phase |-> me.result.executed_phase,
                         next_phase |-> me.result.next_phase])

\* _apply_phase_result and the write-back succeeding, then step's return.
StepApply(t) ==
    LET me == tasks[t] IN
    /\ me.pc = "apply"
    /\ Run(t)
    /\ store[me.sim] # NoSim
    /\ PutSim(me.sim, WriteBack(me))
    /\ tasks' = [tasks EXCEPT ![t] = [@ EXCEPT !.pc = AfterStep(me), !.loc = NoSim,
                                         !.force = "none", !.reply = "none"]]
    /\ engine_lock' = "free"
    /\ cpu' = CASE me.op = "step" -> "none"
                [] me.op = "cycle" -> t
                [] me.op = "advance" -> AfterStoreAwait(t)
    /\ UNCHANGED <<cfgVars, actors, events, actions, sim_locks, streamVars, ops>>

\* The write-back failing: _persist_simulation raises PhaseEngineError.
StepPersistFails(t) ==
    LET me == tasks[t] IN
    /\ me.pc = "apply"
    /\ Run(t)
    /\ IF store[me.sim] = NoSim
       THEN UNCHANGED <<store, disk>>
       ELSE PutSimFails(me.sim, WriteBack(me))
    /\ Raise(t, "PersistenceFailed")
    /\ UNCHANGED <<cfgVars, actors, events, actions, streamVars, ops>>

\* ---- PhaseEngine.run_cycle
CycleLoad(t) ==
    LET me == tasks[t]
        rec == store[me.sim]
    IN /\ me.pc = "c_load"
       /\ Run(t)
       /\ IF rec = NoSim
          THEN Raise(t, "NotFound")
          ELSE /\ IF rec.status \in {"completed", "error"} \/ ~InOrder(rec.current_phase)
                  THEN /\ tasks' = [tasks EXCEPT ![t] = [@ EXCEPT !.pc = "idle"]]
                       /\ cpu' = "none"
                  ELSE /\ tasks' = [tasks EXCEPT ![t] = [@ EXCEPT
                              !.pc = "e_lock", !.force = rec.current_phase]]
                       /\ cpu' = AfterLockRequest(t, engine_lock)
               /\ UNCHANGED <<engine_lock, sim_locks>>
       /\ UNCHANGED <<cfgVars, storeVars, streamVars, ops>>

CycleAfter(t) ==
    LET me == tasks[t]
        stop == \/ me.result.next_phase \in {COMPLETED, PAUSED}
                \/ me.result.executed_phase = SNAPSHOT
                \/ me.iter + 1 >= Len(_DEFAULT_PHASE_ORDER)
    IN /\ me.pc = "c_after"
       /\ Run(t)
       /\ tasks' = [tasks EXCEPT ![t] = [@ EXCEPT
              !.results = Append(@, me.result.executed_phase),
              !.iter = @ + 1,
              !.pc = IF stop THEN "idle" ELSE "c_load"]]
       /\ cpu' = IF stop THEN "none" ELSE AfterStoreAwait(t)
       /\ UNCHANGED <<cfgVars, storeVars, engine_lock, sim_locks, streamVars, ops>>

\* ---- callers of the engine (cli/main.py: simulation advance / cycle)
Budget(s) ==
    /\ ops # 0
    /\ IF store[s] = NoSim THEN TRUE ELSE Len(store[s].phase_log) < MaxLog

Spend == IF ops > 0 THEN ops - 1 ELSE ops

CallStep(t, s, f) ==
    /\ tasks[t].pc = "idle"
    /\ Run(t)
    /\ Budget(s)
    /\ tasks' = [tasks EXCEPT ![t] = [IdleTask EXCEPT
           !.op = "step", !.sim = s, !.pc = "e_lock", !.force = f]]
    /\ cpu' = AfterLockRequest(t, engine_lock)
    /\ ops' = Spend
    /\ UNCHANGED <<cfgVars, storeVars, engine_lock, sim_locks, streamVars>>

CallRunCycle(t, s) ==
    /\ tasks[t].pc = "idle"
    /\ Run(t)
    /\ Budget(s)
    /\ tasks' = [tasks EXCEPT ![t] = [IdleTask EXCEPT
           !.op = "cycle", !.sim = s, !.pc = "c_load"]]
    /\ cpu' = AfterStoreAwait(t)
    /\ ops' = Spend
    /\ UNCHANGED <<cfgVars, storeVars, engine_lock, sim_locks, streamVars>>

\* simulation_create / create_simulation: a new record, status created.
CreateSimulation(s, maxp, registered) ==
    /\ cpu = "none"
    /\ store[s] = NoSim
    /\ PutSim(s, NewSimulation(s, maxp, registered))
    /\ UNCHANGED <<cfgVars, actors, events, actions, engine_lock, sim_locks, tasks,
                   streamVars, cpu, ops>>

\* ---- RuntimeManager streams
\* SimulationStreamEvent as _publish_simulation_event builds it from the
\* simulation record the route holds.
StreamEvent(name, rec) ==
    [event |-> name, simulation_id |-> rec.id, ts |-> published,
     status |-> rec.status, current_phase |-> rec.current_phase,
     phase_number |-> rec.phase_number, log_len |-> Len(rec.phase_log)]

\* A full queue refusing the new event instead of making room for it.
PutDroppingNewest(queue, event) ==
    IF Len(queue) < QueueCap THEN Append(queue, event)
    ELSE queue

\* queue.put_nowait(event); on QueueFull the oldest item is taken out first.
PutDroppingOldest(queue, event) ==
    IF Len(queue) < QueueCap THEN Append(queue, event)
    ELSE Append(Tail(queue), event)

\* A publish that reaches every queue, whatever simulation it listens to.
publish_stream_event_to_all(s, event) ==
    /\ queues' = [q \in Queues |->
           IF \E x \in Sims : q \in subscribers[x]
           THEN PutDroppingOldest(queues[q], event)
           ELSE queues[q]]
    /\ sent' = [q \in Queues |->
           IF \E x \in Sims : q \in subscribers[x]
           THEN Append(sent[q], event) ELSE sent[q]]
    /\ published' = published + 1
    /\ UNCHANGED <<sub_keys, subscribers, clients>>

\* A publish that looks its subscribers up with setdefault.
publish_stream_event_registering(s, event) ==
    /\ queues' = [q \in Queues |->
           IF q \in subscribers[s] THEN PutDroppingOldest(queues[q], event)
           ELSE queues[q]]
    /\ sent' = [q \in Queues |->
           IF q \in subscribers[s] THEN Append(sent[q], event) ELSE sent[q]]
    /\ published' = published + 1
    /\ sub_keys' = sub_keys \cup {s}
    /\ UNCHANGED <<subscribers, clients>>

\* publish_stream_event: no await suspends between the subscriber snapshot and
\* the last put_nowait.
publish_stream_event(s, event) ==
    /\ queues' = [q \in Queues |->
           IF q \in subscribers[s] THEN PutDroppingOldest(queues[q], event)
           ELSE queues[q]]
    /\ sent' = [q \in Queues |->
           IF q \in subscribers[s] THEN Append(sent[q], event) ELSE sent[q]]
    /\ published' = published + 1
    /\ UNCHANGED <<sub_keys, subscribers, clients>>

\* ---- API routes (api/routes/simulations.py)
\* get_simulation_lock(simulation_id), then `async with sim_lock`.
CallApi(t, s, name, first, a) ==
    /\ tasks[t].pc = "idle"
    /\ Run(t)
    /\ Budget(s)
    /\ tasks' = [tasks EXCEPT ![t] = [IdleTask EXCEPT
           !.op = name, !.sim = s, !.pc = first, !.actor = a]]
    /\ sim_locks' = [sim_locks EXCEPT ![s] = IF @ = "absent" THEN "free" ELSE @]
    /\ cpu' = AfterLockRequest(t, sim_locks[s])
    /\ ops' = Spend
    /\ UNCHANGED <<cfgVars, storeVars, engine_lock, streamVars>>

\* An `async with sim_lock` that goes in whoever holds the lock.
AcquireSimLock_without_waiting(t, at, then) ==
    /\ tasks[t].pc = at
    /\ Run(t)
    /\ sim_locks' = [sim_locks EXCEPT ![tasks[t].sim] = t]
    /\ tasks' = [tasks EXCEPT ![t] = [@ EXCEPT !.pc = then]]
    /\ cpu' = AfterStoreAwait(t)
    /\ UNCHANGED <<cfgVars, storeVars, engine_lock, streamVars, ops>>

AcquireSimLock(t, at, then) ==
    /\ tasks[t].pc = at
    /\ Run(t)
    /\ sim_locks[tasks[t].sim] = "free"
    /\ sim_locks' = [sim_locks EXCEPT ![tasks[t].sim] = t]
    /\ tasks' = [tasks EXCEPT ![t] = [@ EXCEPT !.pc = then]]
    /\ cpu' = AfterStoreAwait(t)
    /\ UNCHANGED <<cfgVars, storeVars, engine_lock, streamVars, ops>>

\* The reload after the write, which the event and the response are built from.
Reload(t, at, then, release) ==
    LET me == tasks[t] IN
    /\ me.pc = at
    /\ Run(t)
    /\ tasks' = [tasks EXCEPT ![t] = [@ EXCEPT !.pc = then, !.api = store[me.sim]]]
    /\ sim_locks' = IF release THEN [sim_locks EXCEPT ![me.sim] = "free"]
                    ELSE sim_locks
    /\ cpu' = AfterStoreAwait(t)
    /\ UNCHANGED <<cfgVars, storeVars, engine_lock, streamVars, ops>>

\* build_simulation_detail, _publish_simulation_event and the response.
PublishAndReturn(t, at, name) ==
    LET me == tasks[t] IN
    /\ me.pc = at
    /\ Run(t)
    /\ publish_stream_event(me.sim, StreamEvent(name, me.api))
    /\ tasks' = [tasks EXCEPT ![t] = [@ EXCEPT !.pc = "idle", !.api = NoSim]]
    /\ cpu' = "none"
    /\ UNCHANGED <<cfgVars, storeVars, engine_lock, sim_locks, ops>>

\* ---- advance_simulation
CallAdvance(t, s) == CallApi(t, s, "advance", "a_lock", "none")

AdvanceLock(t) == AcquireSimLock(t, "a_lock", "a_load")

\* _load_simulation_or_404, then the call of phase_engine.step(simulation.id)
AdvanceLoad(t) ==
    LET me == tasks[t] IN
    /\ me.pc = "a_load"
    /\ Run(t)
    /\ IF store[me.sim] = NoSim
       THEN Raise(t, "Http404")
       ELSE /\ tasks' = [tasks EXCEPT ![t] = [@ EXCEPT !.pc = "e_lock"]]
            /\ cpu' = AfterLockRequest(t, engine_lock)
            /\ UNCHANGED <<engine_lock, sim_locks>>
    /\ UNCHANGED <<cfgVars, storeVars, streamVars, ops>>

\* The reload is inside `async with sim_lock`; the lock is left before the
\* detail is built and the event published.
AdvanceReload(t) == Reload(t, "a_reload", "a_publish", TRUE)

AdvancePublish(t) == PublishAndReturn(t, "a_publish", "simulation.phase_advanced")

\* ---- start_simulation
CallStart(t, s) == CallApi(t, s, "start", "st_lock", "none")

StartLock(t) == AcquireSimLock(t, "st_lock", "st_load")

StartLoad(t) ==
    LET me == tasks[t] IN
    /\ me.pc = "st_load"
    /\ Run(t)
    /\ IF store[me.sim] = NoSim
       THEN Raise(t, "Http404")
       ELSE /\ tasks' = [tasks EXCEPT ![t] = [@ EXCEPT
                   !.pc = "st_update", !.loc = start(store[me.sim])]]
            /\ cpu' = AfterStoreAwait(t)
            /\ UNCHANGED <<engine_lock, sim_locks>>
    /\ UNCHANGED <<cfgVars, storeVars, streamVars, ops>>

\* update(simulation.id, {status, updated_at, started_at}): only these fields
\* are written; leaving the `async with` releases the lock.
StartUpdate(t) ==
    LET me == tasks[t] IN
    /\ me.pc = "st_update"
    /\ Run(t)
    /\ PutSim(me.sim, [store[me.sim] EXCEPT !.status = me.loc.status,
                                             !.started_at = me.loc.started_at])
    /\ sim_locks' = [sim_locks EXCEPT ![me.sim] = "free"]
    /\ tasks' = [tasks EXCEPT ![t] = [@ EXCEPT !.pc = "st_reload", !.loc = NoSim]]
    /\ cpu' = AfterStoreAwait(t)
    /\ UNCHANGED <<cfgVars, actors, events, actions, engine_lock, streamVars, ops>>

StartReload(t) == Reload(t, "st_reload", "st_publish", FALSE)

StartPublish(t) == PublishAndReturn(t, "st_publish", "simulation.started")

\* ---- inject_action
\* A new action id ("act-<uuid>"): the smallest one not in the store yet.
FreshAction ==
    CHOOSE x \in 1..MaxInject :
        actions[x] = "none" /\ \A y \in 1..MaxInject : actions[y] = "none" => x <= y

\* Requests that have not created their action yet.
InjectsInFlight == {u \in Tasks : tasks[u].pc \in {"i_lock", "i_load", "i_write"}}

CallInject(t, s, a) ==
    /\ Cardinality({x \in 1..MaxInject : actions[x] = "none"})
          > Cardinality(InjectsInFlight)
    /\ CallApi(t, s, "inject", "i_lock", a)

InjectLock(t) == AcquireSimLock(t, "i_lock", "i_load")

InjectLoad(t) ==
    LET me == tasks[t] IN
    /\ me.pc = "i_load"
    /\ Run(t)
    /\ IF store[me.sim] = NoSim
       THEN Raise(t, "Http404")
       ELSE /\ tasks' = [tasks EXCEPT ![t] = [@ EXCEPT
                   !.pc = "i_write", !.loc = store[me.sim]]]
            /\ cpu' = AfterStoreAwait(t)
            /\ UNCHANGED <<engine_lock, sim_locks>>
    /\ UNCHANGED <<cfgVars, storeVars, streamVars, ops>>

\* An injection that takes the actor for granted.
InjectWrite_without_actor(t) ==
    LET me == tasks[t] IN
    /\ me.pc = "i_write"
    /\ Run(t)
    /\ actors' = actors
    /\ actions' = [actions EXCEPT ![FreshAction] = "pending"]
    /\ PutSim(me.sim, add_pending_action(me.loc, FreshAction))
    /\ sim_locks' = [sim_locks EXCEPT ![me.sim] = "free"]
    /\ tasks' = [tasks EXCEPT ![t] = [@ EXCEPT !.pc = "i_reload", !.loc = NoSim]]
    /\ cpu' = AfterStoreAwait(t)
    /\ UNCHANGED <<cfgVars, events, engine_lock, streamVars, ops>>

\* The actor is created when absent, the action is created, and the record
\* loaded under the lock is written back whole with the action id appended.
InjectWrite(t) ==
    LET me == tasks[t] IN
    /\ me.pc = "i_write"
    /\ Run(t)
    /\ actors' = actors \cup {me.actor}
    /\ actions' = [actions EXCEPT ![FreshAction] = "pending"]
    /\ PutSim(me.sim, add_pending_action(
                          IF me.actor \in actors THEN me.loc
                          ELSE add_actor(me.loc, me.actor), FreshAction))
    /\ sim_locks' = [sim_locks EXCEPT ![me.sim] = "free"]
    /\ tasks' = [tasks EXCEPT ![t] = [@ EXCEPT !.pc = "i_reload", !.loc = NoSim]]
    /\ cpu' = AfterStoreAwait(t)
    /\ UNCHANGED <<cfgVars, events, engine_lock, streamVars, ops>>

InjectReload(t) == Reload(t, "i_reload", "i_publish", FALSE)

InjectPublish(t) == PublishAndReturn(t, "i_publish", "simulation.action_added")

\* ---- add_actor_to_simulation: no lock is taken
CallAddActor(t, s, a) ==
    /\ tasks[t].pc = "idle"
    /\ Run(t)
    /\ Budget(s)
    /\ tasks' = [tasks EXCEPT ![t] = [IdleTask EXCEPT
           !.op = "add_actor", !.sim = s, !.pc = "aa_load", !.actor = a]]
    /\ cpu' = AfterStoreAwait(t)
    /\ ops' = Spend
    /\ UNCHANGED <<cfgVars, storeVars, engine_lock, sim_locks, streamVars>>

AddActorLoad(t) ==
    LET me == tasks[t] IN
    /\ me.pc = "aa_load"
    /\ Run(t)
    /\ IF store[me.sim] = NoSim
       THEN Raise(t, "Http404")
       ELSE /\ tasks' = [tasks EXCEPT ![t] = [@ EXCEPT
                   !.pc = "aa_actor", !.loc = store[me.sim]]]
            /\ cpu' = AfterStoreAwait(t)
            /\ UNCHANGED <<engine_lock, sim_locks>>
    /\ UNCHANGED <<cfgVars, storeVars, streamVars, ops>>

\* actor_repository.get(actor_id): 404 when the actor does not exist.
AddActorCheck(t) ==
    LET me == tasks[t] IN
    /\ me.pc = "aa_actor"
    /\ Run(t)
    /\ IF me.actor \notin actors
       THEN Raise(t, "Http404")
       ELSE /\ tasks' = [tasks EXCEPT ![t] = [@ EXCEPT
                   !.pc = IF me.actor \in Range(me.loc.active_actor_ids)
                          THEN "aa_reload" ELSE "aa_update"]]
            /\ cpu' = IF me.actor \in Range(me.loc.active_actor_ids) THEN t
                      ELSE AfterStoreAwait(t)
            /\ UNCHANGED <<engine_lock, sim_locks>>
    /\ UNCHANGED <<cfgVars, storeVars, streamVars, ops>>

\* update(simulation.id, simulation.to_dict()): the record loaded at the start
\* of the request is written back whole.
AddActorUpdate(t) ==
    LET me == tasks[t] IN
    /\ me.pc = "aa_update"
    /\ Run(t)
    /\ PutSim(me.sim, add_actor(me.loc, me.actor))
    /\ tasks' = [tasks EXCEPT ![t] = [@ EXCEPT !.pc = "aa_reload", !.loc = NoSim]]
    /\ cpu' = AfterStoreAwait(t)
    /\ UNCHANGED <<cfgVars, actors, events, actions, engine_lock, sim_locks,
                   streamVars, ops>>

AddActorReload(t) == Reload(t, "aa_reload", "aa_publish", FALSE)

AddActorPublish(t) == PublishAndReturn(t, "aa_publish", "simulation.actor_added")

\* ---- create_actor (api/routes/actors.py): a new actor under a new id
CreateActor(a) ==
    /\ cpu = "none"
    /\ a \notin actors
    /\ actors' = actors \cup {a}
    /\ UNCHANGED <<cfgVars, store, disk, events, actions, engine_lock, sim_locks, tasks,
                   streamVars, cpu, ops>>

\* ---- stream_simulation (api/routes/streams.py)
IdleClient == [pc |-> "idle", sim |-> "s1", snap |-> NoSim, taken |-> 0, err |-> "none"]

\* simulation_repository.get(simulation_id); 404 when there is no record.
StreamOpen(q, s) ==
    /\ clients[q].pc = "idle"
    /\ Run(q)
    /\ clients' = [clients EXCEPT ![q] =
           IF store[s] = NoSim THEN [@ EXCEPT !.pc = "closed", !.err = "Http404"]
           ELSE [@ EXCEPT !.pc = "subscribe", !.sim = s, !.snap = store[s]]]
    /\ cpu' = IF store[s] = NoSim THEN "none" ELSE AfterStoreAwait(q)
    /\ UNCHANGED <<cfgVars, storeVars, engine_lock, sim_locks, tasks, sub_keys,
                   subscribers, queues, published, sent, ops>>

\* subscribe_to_stream: a new queue joins the simulation's subscriber set.
StreamSubscribe(q) ==
    LET me == clients[q] IN
    /\ me.pc = "subscribe"
    /\ Run(q)
    /\ sub_keys' = sub_keys \cup {me.sim}
    /\ subscribers' = [subscribers EXCEPT ![me.sim] = @ \cup {q}]
    /\ queues' = [queues EXCEPT ![q] = << >>]
    /\ sent' = [sent EXCEPT ![q] = << >>]
    /\ clients' = [clients EXCEPT ![q] = [@ EXCEPT !.pc = "initial"]]
    /\ cpu' = AfterStoreAwait(q)
    /\ UNCHANGED <<cfgVars, storeVars, engine_lock, sim_locks, tasks, published, ops>>

\* await subscriber_queue.put(initial_event): the snapshot event is built from
\* the record read before subscribing; put waits while the queue is full.
StreamInitial(q) ==
    LET me == clients[q]
        event == StreamEvent("simulation.snapshot", me.snap)
    IN /\ me.pc = "initial"
       /\ Run(q)
       /\ Len(queues[q]) < QueueCap
       /\ queues' = [queues EXCEPT ![q] = Append(@, event)]
       /\ sent' = [sent EXCEPT ![q] = Append(@, event)]
       /\ published' = published + 1
       /\ clients' = [clients EXCEPT ![q] = [@ EXCEPT !.pc = "streaming", !.snap = NoSim]]
       /\ cpu' = "none"
       /\ UNCHANGED <<cfgVars, storeVars, engine_lock, sim_locks, tasks, sub_keys,
                      subscribers, ops>>

\* event_generator: subscriber_queue.get() hands over the oldest event.
StreamConsume(q) ==
    /\ clients[q].pc = "streaming"
    /\ Run(q)
    /\ queues[q] # << >>
    /\ clients[q].taken < MaxConsume
    /\ queues' = [queues EXCEPT ![q] = Tail(@)]
    /\ clients' = [clients EXCEPT ![q] = [@ EXCEPT !.taken = @ + 1]]
    /\ cpu' = "none"
    /\ UNCHANGED <<cfgVars, storeVars, engine_lock, sim_locks, tasks, sub_keys,
                   subscribers, published, sent, ops>>

\* The generator's `finally`: unsubscribe_from_stream. Nothing refers to the
\* queue afterwards; what it held is gone with it.
StreamClose(q) ==
    LET me == clients[q]
        rest == subscribers[me.sim] \ {q}
    IN /\ me.pc = "streaming"
       /\ Run(q)
       /\ subscribers' = [subscribers EXCEPT ![me.sim] = rest]
       /\ sub_keys' = IF rest = {} THEN sub_keys \ {me.sim} ELSE sub_keys
       /\ clients' = [clients EXCEPT ![q] = [@ EXCEPT !.pc = "closed"]]
       /\ queues' = [queues EXCEPT ![q] = << >>]
       /\ sent' = [sent EXCEPT ![q] = << >>]
       /\ cpu' = "none"
       /\ UNCHANGED <<cfgVars, storeVars, engine_lock, sim_locks, tasks, published, ops>>

\* build_simulation_detail or the put of the initial event raising, or the
\* request being cancelled while one of them is suspended: the handler is
\* left after subscribe_to_stream and before event_generator ever runs, so
\* its `finally` does not run either.
StreamAbort(q) ==
    /\ clients[q].pc = "initial"
    /\ Run(q)
    /\ backend = "firestore"
    /\ clients' = [clients EXCEPT ![q] = [@ EXCEPT !.pc = "closed", !.err = "StoreError",
                                             !.snap = NoSim]]
    /\ cpu' = "none"
    /\ UNCHANGED <<cfgVars, storeVars, engine_lock, sim_locks, tasks, sub_keys,
                   subscribers, queues, published, sent, ops>>

\* RuntimeManager.shutdown: the subscriber map is cleared; no request is
\* accepted afterwards.
Shutdown ==
    /\ cpu = "none"
    /\ ops # 0
    /\ sub_keys' = {}
    /\ subscribers' = [s \in Sims |-> {}]
    /\ ops' = 0
    /\ UNCHANGED <<cfgVars, storeVars, engine_lock, sim_locks, tasks, queues, clients,
                   published, sent, cpu>>

\* ---- a caller of SimulationState.pause / resume
\* The record is loaded, paused and written back while no step is under way;
\* the caller keeps the phase the simulation was at and the length of its log.
PauseSimulation(t, s) ==
    /\ cpu = "none"
    /\ \A u \in Tasks : tasks[u].pc = "idle"
    /\ store[s] # NoSim
    /\ store[s].status = "running"
    /\ InOrder(store[s].current_phase)
    /\ Budget(s)
    /\ PutSim(s, pause(store[s]))
    /\ tasks' = [tasks EXCEPT ![t] = [IdleTask EXCEPT
           !.op = "pause", !.sim = s, !.force = store[s].current_phase,
           !.iter = Len(store[s].phase_log)]]
    /\ ops' = Spend
    /\ UNCHANGED <<cfgVars, actors, events, actions, engine_lock, sim_locks, streamVars, cpu>>

ResumeSimulation(t) ==
    LET s == tasks[t].sim IN
    /\ cpu = "none"
    /\ \A u \in Tasks : tasks[u].pc = "idle"
    /\ tasks[t].op = "pause"
    /\ store[s] # NoSim
    /\ store[s].status = "paused"
    /\ PutSim(s, resume(store[s]))
    /\ tasks' = [tasks EXCEPT ![t] = [@ EXCEPT !.op = "resume"]]
    /\ UNCHANGED <<cfgVars, actors, events, actions, engine_lock, sim_locks, streamVars,
                   cpu, ops>>

\* ---- MemoryRepository over LocalStateStore, one caller
\* Entities as the models hold them: enum members and datetimes.  Their
\* payloads (to_dict, model_dump(mode='json')) carry the enum's value and the
\* ISO text of the datetime.
EntityStatus == {"created", "running"}

MaxStamp == 1

Now == MaxStamp

RepoEntities ==
    [id : Sims, status : [enum : EntityStatus], updated_at : [datetime : 0..MaxStamp]]

to_dict(E) ==
    [id |-> E.id, status |-> E.status.enum, updated_at |-> <<"iso", E.updated_at.datetime>>]

\* A from_dict that does not parse the timestamp.
from_dict_epoch(payload) ==
    [id |-> payload.id,
     status |-> [enum |-> payload.status],
     updated_at |-> [datetime |-> 0]]

from_dict(payload) ==
    [id |-> payload.id,
     status |-> [enum |-> payload.status],
     updated_at |-> [datetime |-> payload.updated_at[2]]]

\* The dicts callers pass to update: a status alone (start_simulation's kind of
\* partial update) or an entity's full payload.
Updates(s) ==
    {[status |-> v] : v \in EntityStatus}
        \cup {to_dict(E) : E \in {x \in RepoEntities : x.id = s}}

\* {**payload, **updates}
Merge(payload, updates) ==
    [k \in DOMAIN payload \cup DOMAIN updates |->
        IF k \in DOMAIN updates THEN updates[k] ELSE payload[k]]

\* MemorySimulationRepository.update: updated_at is refreshed when the caller
\* did not provide one.
Refreshed(updates) ==
    IF "updated_at" \in DOMAIN updates THEN updates
    ELSE Merge(updates, [updated_at |-> <<"iso", Now>>])

\* What a finished repository call leaves with its caller.
Returned(t, name, s, value) ==
    tasks' = [tasks EXCEPT ![t] = [@ EXCEPT
        !.op = name, !.sim = s, !.ret = value, !.err = "none", !.api = NoSim]]

RepoIdle(t) == tasks[t].pc = "idle" /\ cpu = "none" /\ backend = "memory"

RepoFrame == UNCHANGED <<cfgVars, actors, events, actions, engine_lock, sim_locks,
                         streamVars, cpu, ops>>

\* create: the payload is stored under payload["id"] and the file rewritten.
create(t, E) ==
    /\ RepoIdle(t)
    /\ store' = [store EXCEPT ![E.id] = to_dict(E)]
    /\ disk' = _sync(store')
    /\ tasks' = [tasks EXCEPT ![t] = [@ EXCEPT
           !.op = "create", !.sim = E.id, !.loc = E, !.ret = E.id, !.err = "none",
           !.api = NoSim]]
    /\ RepoFrame

\* LocalStateStore.put failing in _sync: the payload is already in _data; the
\* file is untouched if it could not be opened, and broken if the write
\* stopped after the open truncated it.
create_sync_fails(t, E) ==
    /\ RepoIdle(t)
    /\ store' = [store EXCEPT ![E.id] = to_dict(E)]
    /\ disk' \in {disk, CorruptFile}
    /\ tasks' = [tasks EXCEPT ![t] = [@ EXCEPT
           !.op = "create", !.sim = E.id, !.loc = E, !.ret = "none", !.err = "OSError",
           !.api = NoSim]]
    /\ RepoFrame

\* get: from_dict of the stored payload, None when there is none.
get(t, s) ==
    /\ RepoIdle(t)
    /\ tasks' = [tasks EXCEPT ![t] = [@ EXCEPT
           !.op = "get", !.sim = s, !.ret = "none", !.err = "none",
           !.api = IF store[s] = NoSim THEN NoSim ELSE from_dict(store[s])]]
    /\ UNCHANGED <<store, disk>>
    /\ RepoFrame

\* An update that stores the fields whether or not the id exists.
update_upserting(t, s, updates) ==
    /\ RepoIdle(t)
    /\ store' = [store EXCEPT ![s] =
           IF store[s] = NoSim THEN Refreshed(updates) ELSE Merge(store[s], Refreshed(updates))]
    /\ disk' = _sync(store')
    /\ Returned(t, "update", s, "true")
    /\ RepoFrame

\* update: False when the id has no payload, else the merged payload is put.
update(t, s, updates) ==
    /\ RepoIdle(t)
    /\ IF store[s] = NoSim
       THEN /\ Returned(t, "update", s, "false")
            /\ UNCHANGED <<store, disk>>
       ELSE /\ store' = [store EXCEPT ![s] = Merge(store[s], Refreshed(updates))]
            /\ disk' = _sync(store')
            /\ Returned(t, "update", s, "true")
    /\ RepoFrame

\* delete: the payload is popped and the file rewritten; False when the id
\* is not there.
delete(t, s) ==
    /\ RepoIdle(t)
    /\ IF store[s] = NoSim
       THEN /\ Returned(t, "delete", s, "false")
            /\ UNCHANGED <<store, disk>>
       ELSE /\ store' = [store EXCEPT ![s] = NoSim]
            /\ disk' = _sync(store')
            /\ Returned(t, "delete", s, "true")
    /\ RepoFrame

\* ------------------------------------------------------------ specifications
InitCommon ==
    /\ store = [s \in Sims |-> NoSim]
    /\ disk = _sync(store)
    /\ actors = {}
    /\ events = [e \in EventIds |-> "none"]
    /\ actions = [a \in ActionIds |-> "none"]
    /\ engine_lock = "free"
    /\ sim_locks = [s \in Sims |-> "absent"]
    /\ tasks = [t \in Tasks |-> IdleTask]
    /\ sub_keys = {}
    /\ subscribers = [s \in Sims |-> {}]
    /\ queues = [q \in Queues |-> << >>]
    /\ sent = [q \in Queues |-> << >>]
    /\ clients = [q \in Queues |-> IdleClient]
    /\ published = 0
    /\ cpu = "none"

\* The steps of a call of PhaseEngine.step, whoever made it.
EngineStep(t) ==
    \/ StepRequested(t)
    \/ StepLoad(t)
    \/ StepHandler(t)
    \/ StepHandlerRaises(t)
    \/ StepApply(t)
    \/ StepPersistFails(t)

\* One caller at a time drives the engine on one simulation (the CLI).
InitEngine ==
    /\ backend \in Backends
    /\ llm \in BOOLEAN
    /\ ops = -1
    /\ InitCommon

NextEngine ==
    \/ \E s \in EngineSims, maxp \in 1..MaxCycles, registered \in BOOLEAN :
          CreateSimulation(s, maxp, registered)
    \/ \E t \in EngineTasks, s \in EngineSims, f \in SimulationPhase \cup {"none"} :
          CallStep(t, s, f)
    \/ \E t \in EngineTasks, s \in EngineSims : CallRunCycle(t, s)
    \/ \E t \in EngineTasks : EngineStep(t) \/ CycleLoad(t) \/ CycleAfter(t)
    \/ \E t \in EngineTasks : StepHandlerBadReply(t)

SpecEngine == InitEngine /\ [][NextEngine]_vars

\* The steps of the API requests.
AdvanceStep(t) == AdvanceLock(t) \/ AdvanceLoad(t) \/ AdvanceReload(t) \/ AdvancePublish(t)

StartStep(t) ==
    StartLock(t) \/ StartLoad(t) \/ StartUpdate(t) \/ StartReload(t) \/ StartPublish(t)

InjectStep(t) ==
    InjectLock(t) \/ InjectLoad(t) \/ InjectWrite(t) \/ InjectReload(t) \/ InjectPublish(t)

AddActorStep(t) ==
    \/ AddActorLoad(t)
    \/ AddActorCheck(t)
    \/ AddActorUpdate(t)
    \/ AddActorReload(t)
    \/ AddActorPublish(t)

StreamStep(q) ==
    \/ \E s \in Sims : StreamOpen(q, s)
    \/ StreamSubscribe(q)
    \/ StreamInitial(q)
    \/ StreamConsume(q)
    \/ StreamClose(q)

\* One API client sending advance and start requests for one simulation, one
\* request at a time; every store and handler call returns.
RequestTasks == {"t1"}
RequestSims == {"s1"}

InitRequests ==
    /\ backend \in Backends
    /\ llm \in BOOLEAN
    /\ ops = MaxRequests
    /\ InitCommon

NextRequests ==
    \/ \E s \in RequestSims, maxp \in 1..MaxCycles : CreateSimulation(s, maxp, FALSE)
    \/ \E t \in RequestTasks, s \in RequestSims : CallAdvance(t, s) \/ CallStart(t, s)
    \/ \E t \in RequestTasks :
          \/ StepRequested(t) \/ StepLoad(t) \/ StepHandler(t) \/ StepApply(t)
          \/ AdvanceStep(t)
          \/ StartStep(t)

SpecRequests == InitRequests /\ [][NextRequests]_vars

\* Two concurrent callers of PhaseEngine.step on two simulations.
InitSteps ==
    /\ backend \in Backends
    /\ llm \in BOOLEAN
    /\ ops = MaxCalls
    /\ InitCommon

NextSteps ==
    \/ \E s \in Sims, registered \in BOOLEAN : CreateSimulation(s, MaxCycles, registered)
    \/ \E t \in Tasks, s \in Sims : CallStep(t, s, "none")
    \/ \E t \in Tasks : EngineStep(t)

SpecSteps == InitSteps /\ [][NextSteps]_vars

\* Two concurrent API clients on two simulations, with one stream connection
\* listening.
ApiClients == {"q1"}

InitApi ==
    /\ backend \in Backends
    /\ llm \in BOOLEAN
    /\ ops = MaxOps
    /\ InitCommon

NextApi ==
    \/ \E s \in Sims : CreateSimulation(s, MaxCycles, FALSE)
    \/ CreateActor(OtherActor)
    \/ \E t \in Tasks, s \in Sims :
          \/ CallAdvance(t, s)
          \/ CallAddActor(t, s, OtherActor)
    \/ \E t \in Tasks : EngineStep(t) \/ AdvanceStep(t) \/ AddActorStep(t)
    \/ \E q \in ApiClients : StreamStep(q)

SpecApi == InitApi /\ [][NextApi]_vars

\* One simulation, start requests one after the other, one stream connection.
StreamTasks == {"t1"}
StreamSims == {"s1"}
StreamClients == {"q1"}

InitStream ==
    /\ backend = "memory"
    /\ llm = FALSE
    /\ ops = MaxPublish
    /\ InitCommon

NextStream ==
    \/ \E s \in StreamSims : CreateSimulation(s, MaxCycles, FALSE)
    \/ \E t \in StreamTasks, s \in StreamSims : CallStart(t, s)
    \/ \E t \in StreamTasks : StartStep(t)
    \/ \E q \in StreamClients :
          \/ \E s \in StreamSims : StreamOpen(q, s)
          \/ StreamSubscribe(q)
          \/ StreamInitial(q)
          \/ StreamConsume(q)
          \/ StreamClose(q)

SpecStream == InitStream /\ [][NextStream]_vars

\* Start requests for two simulations from one client, two stream
\* connections that may fail before streaming, and the server's shutdown.
SubscriberTasks == {"t1"}

InitSubscribers ==
    /\ backend \in Backends
    /\ llm = FALSE
    /\ ops = MaxOps
    /\ InitCommon

NextSubscribers ==
    \/ \E s \in Sims : CreateSimulation(s, MaxCycles, FALSE)
    \/ \E t \in SubscriberTasks, s \in Sims : CallStart(t, s)
    \/ \E t \in SubscriberTasks : StartStep(t)
    \/ \E q \in Queues : StreamStep(q) \/ StreamAbort(q)
    \/ Shutdown

SpecSubscribers == InitSubscribers /\ [][NextSubscribers]_vars

\* One caller stepping two simulations that were created from the same
\* registered scenario; the store does not fail.
MaxScenarioSteps == 7

ScenarioTasks == {"t1"}

InitScenario ==
    /\ backend \in Backends
    /\ llm \in BOOLEAN
    /\ ops = MaxScenarioSteps
    /\ InitCommon

NextScenario ==
    \/ \E s \in Sims : CreateSimulation(s, MaxCycles, TRUE)
    \/ \E t \in ScenarioTasks, s \in Sims : CallStep(t, s, "none")
    \/ \E t \in ScenarioTasks :
          StepRequested(t) \/ StepLoad(t) \/ StepHandler(t) \/ StepApply(t)

SpecScenario == InitScenario /\ [][NextScenario]_vars

\* One caller of a repository of the local backend.
RepoTasks == {"t1"}

InitRepository ==
    /\ backend = "memory"
    /\ llm = FALSE
    /\ ops = -1
    /\ InitCommon

NextRepository ==
    \/ \E t \in RepoTasks, E \in RepoEntities : create(t, E) \/ create_sync_fails(t, E)
    \/ \E t \in RepoTasks, s \in Sims : get(t, s) \/ delete(t, s)
    \/ \E t \in RepoTasks, s \in Sims : \E updates \in Updates(s) : update(t, s, updates)

SpecRepository == InitRepository /\ [][NextRepository]_vars

\* One API client that injects actions and advances a simulation.
InjectTasks == {"t1"}

InjectSims == {"s1"}

MaxInjectCalls == 10

InitInject ==
    /\ backend \in Backends
    /\ llm \in BOOLEAN
    /\ ops = MaxInjectCalls
    /\ InitCommon

NextInject ==
    \/ \E s \in InjectSims, registered \in BOOLEAN : CreateSimulation(s, MaxCycles, registered)
    \/ CreateActor(OtherActor)
    \/ \E t \in InjectTasks, s \in InjectSims, a \in ActorIds : CallInject(t, s, a)
    \/ \E t \in InjectTasks, s \in InjectSims : CallAdvance(t, s)
    \/ \E t \in InjectTasks :
          \/ StepRequested(t) \/ StepLoad(t) \/ StepHandler(t) \/ StepApply(t)
          \/ AdvanceStep(t)
          \/ InjectStep(t)

SpecInject == InitInject /\ [][NextInject]_vars

\* Two API clients that inject actions into one simulation and advance it.
MaxRaceCalls == 6

InitRace ==
    /\ backend \in Backends
    /\ llm = FALSE
    /\ ops = MaxRaceCalls
    /\ InitCommon

NextRace ==
    \/ \E s \in InjectSims : CreateSimulation(s, MaxCycles, TRUE)
    \/ \E t \in Tasks, s \in InjectSims : CallInject(t, s, SeedActor)
    \/ \E t \in Tasks, s \in InjectSims : CallAdvance(t, s)
    \/ \E t \in Tasks :
          \/ StepRequested(t) \/ StepLoad(t) \/ StepHandler(t) \/ StepApply(t)
          \/ AdvanceStep(t)
          \/ InjectStep(t)

SpecRace == InitRace /\ [][NextRace]_vars

\* Start requests of one client and one stream connection on either backend,
\* under the event loop's scheduling: a coroutine that can run is run, so every
\* step of a request in flight and of a connection being set up is weakly fair;
\* new requests (sent for simulations that exist), and a client reading or
\* leaving its stream, are not.
InitLive ==
    /\ backend \in Backends
    /\ llm = FALSE
    /\ ops = MaxPublish
    /\ InitCommon

NextLive ==
    \/ \E s \in StreamSims : CreateSimulation(s, MaxCycles, FALSE)
    \/ \E t \in StreamTasks, s \in StreamSims : store[s] # NoSim /\ CallStart(t, s)
    \/ \E t \in StreamTasks : StartStep(t)
    \/ \E q \in StreamClients :
          \/ \E s \in StreamSims : StreamOpen(q, s)
          \/ StreamSubscribe(q)
          \/ StreamInitial(q)
          \/ StreamConsume(q)
          \/ StreamClose(q)

SpecLive ==
    /\ InitLive
    /\ [][NextLive]_vars
    /\ \A t \in StreamTasks : WF_vars(StartStep(t))
    /\ \A q \in StreamClients : WF_vars(StreamSubscribe(q) \/ StreamInitial(q))

\* One API client advancing a one-cycle simulation to its end while another
\* adds an actor to it.
MaxCompletionCalls == 8

InitCompletion ==
    /\ backend \in Backends
    /\ llm = FALSE
    /\ ops = MaxCompletionCalls
    /\ InitCommon

NextCompletion ==
    \/ \E s \in InjectSims : CreateSimulation(s, 1, FALSE)
    \/ CreateActor(OtherActor)
    \/ \E s \in InjectSims : CallAdvance("t1", s)
    \/ \E s \in InjectSims : CallAddActor("t2", s, OtherActor)
    \/ \E t \in Tasks :
          \/ StepRequested(t) \/ StepLoad(t) \/ StepHandler(t) \/ StepApply(t)
          \/ AdvanceStep(t)
          \/ AddActorStep(t)

SpecCompletion == InitCompletion /\ [][NextCompletion]_vars

\* One caller stepping a simulation that another pauses and resumes.
PauseSims == {"s1"}

InitPause ==
    /\ backend \in Backends
    /\ llm = FALSE
    /\ ops = MaxRequests
    /\ InitCommon

NextPause ==
    \/ \E s \in PauseSims : CreateSimulation(s, MaxCycles, FALSE)
    \/ \E s \in PauseSims : CallStep("t1", s, "none")
    \/ StepRequested("t1") \/ StepLoad("t1") \/ StepHandler("t1") \/ StepApply("t1")
    \/ \E s \in PauseSims : PauseSimulation("t2", s)
    \/ ResumeSimulation("t2")

SpecPause == InitPause /\ [][NextPause]_vars

\* ------------------------------------------------------------------ claims
\* The successor of a phase in the canonical cycle.
Successor(phase) ==
    CASE phase = INITIALIZE -> EVENT_GENERATION
      [] phase = EVENT_GENERATION -> ACTION_COLLECTION
      [] phase = ACTION_COLLECTION -> ACTION_RESOLUTION
      [] phase = ACTION_RESOLUTION -> WORLD_UPDATE
      [] phase = WORLD_UPDATE -> SNAPSHOT
      [] phase = SNAPSHOT -> EVENT_GENERATION
      [] OTHER -> "none"

\* A call of step returning its result in this move.
StepSucceeds(t) ==
    tasks[t].pc = "apply" /\ tasks'[t].pc # "apply" /\ tasks'[t].err = "none"

\* A call of step raising in this move.
StepFails(t) ==
    /\ tasks[t].pc \in {"e_load", "handler", "apply"}
    /\ tasks'[t].pc = "idle"
    /\ tasks'[t].err # "none"

\* C1: under default sequence enforcement every successful step executes the
\* recorded current_phase and persists its canonical successor as the new
\* current_phase, unless the step completes the simulation; so the first six
\* steps from a created simulation run the six phases in order, phase_number
\* (cycle_number) is 0 before the sixth and 1 after it, when the phase is
\* event_generation again.
C1_StepsFollowCanonicalOrder ==
    /\ [](\A s \in Sims : store[s] # NoSim /\ Len(store[s].phase_log) <= 6 =>
            LET rec == store[s]
                n == Len(rec.phase_log)
            IN /\ rec.phase_log = SubSeq(_DEFAULT_PHASE_ORDER, 1, n)
               /\ n < 6 => rec.phase_number = 0 /\ rec.current_phase = _DEFAULT_PHASE_ORDER[n + 1]
               /\ n = 6 => rec.phase_number = 1
               /\ n = 6 /\ rec.max_phases > 1 => rec.current_phase = EVENT_GENERATION)
    /\ [][\A t \in Tasks : StepSucceeds(t) =>
            LET s == tasks[t].sim IN
            /\ tasks[t].result.executed_phase = store[s].current_phase
            /\ store'[s].phase_log = Append(store[s].phase_log, store[s].current_phase)
            /\ store'[s].current_phase =
                  IF store'[s].status = "completed" THEN COMPLETED
                  ELSE Successor(store[s].current_phase)]_vars

\* Six steps done on a simulation that goes on: cycle 1 starts at event_generation.
C1_Witness ==
    /\ store["s1"] # NoSim
    /\ store["s1"].phase_log = _DEFAULT_PHASE_ORDER
    /\ store["s1"].phase_number = 1
    /\ store["s1"].current_phase = EVENT_GENERATION
    /\ store["s1"].status = "running"
    /\ tasks["t1"].pc = "idle" /\ tasks["t1"].err = "none"

\* C2: across step and run_cycle calls the persisted phase_number
\* (cycle_number) never decreases, grows by exactly 1 on each successful
\* snapshot step, and is left as it was by every successful step of another
\* phase and by every failed step.
C2_CycleNumberOnlyMovesAtSnapshot ==
    [][\A s \in Sims : store[s] # NoSim =>
          /\ store'[s].phase_number >= store[s].phase_number
          /\ \A t \in Tasks : tasks[t].sim = s =>
                /\ StepSucceeds(t) /\ tasks[t].result.executed_phase = SNAPSHOT
                      => store'[s].phase_number = store[s].phase_number + 1
                /\ StepSucceeds(t) /\ tasks[t].result.executed_phase # SNAPSHOT
                      => store'[s].phase_number = store[s].phase_number
                /\ StepFails(t) => store'[s].phase_number = store[s].phase_number]_vars

\* C6: a successful snapshot step that brings phase_number (cycle_number) to
\* max_phases (max_cycles) or beyond persists status completed and
\* current_phase completed although the snapshot handler proposed
\* event_generation; with max_phases = 1 that is the first snapshot step, and
\* the step after it fails with the terminal-state error.
C6_SnapshotAtLimitCompletes ==
    /\ [][\A t \in Tasks : StepSucceeds(t) /\ tasks[t].result.executed_phase = SNAPSHOT =>
            LET s == tasks[t].sim IN
            IF store'[s].phase_number >= store'[s].max_phases
            THEN /\ store'[s].status = "completed"
                 /\ store'[s].current_phase = COMPLETED
                 /\ tasks[t].result.next_phase = EVENT_GENERATION
            ELSE store'[s].status = "running"]_vars
    /\ [](\A s \in Sims : store[s] # NoSim /\ store[s].max_phases = 1 =>
            (store[s].phase_number >= 1 <=> store[s].status = "completed"))
    /\ [][\A t \in Tasks :
            /\ tasks[t].pc = "e_load" /\ tasks'[t].pc # "e_load"
            /\ store[tasks[t].sim] # NoSim
            /\ store[tasks[t].sim].status = "completed"
            => tasks'[t].pc = "idle" /\ tasks'[t].err = "TerminalState"]_vars

\* A max_phases = 1 simulation completed by its first snapshot, and the next
\* step refused.
C6_Witness ==
    /\ store["s1"] # NoSim
    /\ store["s1"].max_phases = 1
    /\ store["s1"].phase_log = _DEFAULT_PHASE_ORDER
    /\ store["s1"].status = "completed"
    /\ store["s1"].current_phase = COMPLETED
    /\ tasks["t1"].err = "TerminalState"

\* C7: a step that fails, for whatever reason, leaves the persisted
\* current_phase, phase_number (cycle_number) and status as they were.
C7_FailedStepLeavesPointerAlone ==
    [][\A t \in Tasks : StepFails(t) /\ store[tasks[t].sim] # NoSim =>
          LET s == tasks[t].sim IN
          /\ store'[s].current_phase = store[s].current_phase
          /\ store'[s].phase_number = store[s].phase_number
          /\ store'[s].status = store[s].status]_vars

\* A step that names a phase other than the one the sequence check admits.
ForcedOutOfTurn(t) ==
    /\ tasks[t].pc = "e_load" /\ tasks'[t].pc # "e_load"
    /\ tasks[t].force # "none"
    /\ store[tasks[t].sim] # NoSim
    /\ ~InOrder(tasks[t].force) \/ tasks[t].force # store[tasks[t].sim].current_phase

\* C8 as stated: with sequence enforcement on, a step whose force_phase is
\* outside the canonical sequence or differs from the recorded current_phase
\* fails with the unexpected-phase error, runs no handler and leaves the
\* persisted simulation unchanged.
C8_ForcedOutOfTurnIsUnexpectedPhase ==
    [][\A t \in Tasks : ForcedOutOfTurn(t) =>
          /\ tasks'[t].pc = "idle"
          /\ tasks'[t].err = "UnexpectedPhase"
          /\ store' = store]_vars

\* C8 amended: the same for a simulation whose status is neither completed
\* nor error; on a completed or error simulation the step fails earlier, with
\* the terminal-state error, and still runs no handler and changes nothing.
C8_ForcedOutOfTurnRefused ==
    [][\A t \in Tasks : ForcedOutOfTurn(t) =>
          /\ tasks'[t].pc = "idle"
          /\ tasks'[t].err =
                IF store[tasks[t].sim].status \in {"completed", "error"}
                THEN "TerminalState" ELSE "UnexpectedPhase"
          /\ store' = store]_vars

\* A forced step on a running simulation refused for being out of turn.
C8_Witness ==
    /\ store["s1"] # NoSim
    /\ store["s1"].status = "running"
    /\ tasks["t1"].op = "step"
    /\ tasks["t1"].err = "UnexpectedPhase"

\* Inside step's `async with self._lock`.
InStep(t) == tasks[t].pc \in {"e_load", "handler", "apply"}

\* C3: two concurrent step calls for the same simulation id are never both
\* between loading the simulation and finishing the write-back: the second
\* neither loads nor enters its handler until the first has applied and
\* persisted its result, or failed.
C3_SameSimulationStepsSerialized ==
    \A t1, t2 \in Tasks :
        t1 # t2 /\ tasks[t1].sim = tasks[t2].sim => ~(InStep(t1) /\ InStep(t2))

\* One step suspended in its handler while a second call for the same
\* simulation waits for the lock.
C3_Witness ==
    /\ tasks["t1"].pc = "handler" /\ tasks["t1"].sim = "s1"
    /\ tasks["t2"].pc = "e_lock" /\ tasks["t2"].sim = "s1"
    /\ cpu = "none"

\* C4: while a step for simulation A is suspended inside its handler, a step
\* for a different simulation B can acquire its lock and go on without
\* waiting for A's step to finish.
C4_DifferentSimulationsOverlap ==
    \A t1, t2 \in Tasks :
        /\ t1 # t2
        /\ tasks[t1].pc = "handler" /\ cpu = "none"
        /\ tasks[t2].pc = "e_lock"
        /\ tasks[t2].sim # tasks[t1].sim
        /\ store[tasks[t2].sim] # NoSim
        => ENABLED StepRequested(t2)

\* C5: once a simulation has been completed (only complete() sets
\* current_phase to completed), every step call made for it fails with the
\* terminal-state error before any handler runs, and its persisted
\* current_phase stays completed.
C5_CompletedRefusesEveryStep ==
    /\ [][\A s \in Sims : store[s] # NoSim /\ store[s].current_phase = COMPLETED
            => store'[s].current_phase = COMPLETED]_vars
    /\ [][\A t \in Tasks :
            /\ tasks[t].pc = "e_load" /\ tasks'[t].pc # "e_load"
            /\ store[tasks[t].sim] # NoSim
            /\ store[tasks[t].sim].current_phase = COMPLETED
            => tasks'[t].pc = "idle" /\ tasks'[t].err = "TerminalState"]_vars

\* C9: a phase-advanced notification is put into the subscribers' queues only
\* after its step's write-back, so the store's record is at least as advanced
\* (phase_number and phase-log length) as every phase-advanced event a
\* subscriber can still take from its queue.
C9_StoreNotBehindQueuedEvents ==
    /\ [][\A q \in Queues : sent'[q] # sent[q] /\ sent'[q] # << >>
            /\ sent'[q][Len(sent'[q])].event = "simulation.phase_advanced"
            => \E t \in Tasks : /\ tasks[t].pc = "a_publish"
                                /\ tasks[t].result.executed_phase # "none"]_vars
    /\ [](\A q \in Queues : \A i \in 1..Len(queues[q]) :
            LET e == queues[q][i] IN
            e.event = "simulation.phase_advanced" =>
                /\ store[e.simulation_id].phase_number >= e.phase_number
                /\ Len(store[e.simulation_id].phase_log) >= e.log_len)

\* The last n elements of a sequence.
LastOf(seq, n) ==
    IF Len(seq) <= n THEN seq ELSE SubSeq(seq, Len(seq) - n + 1, Len(seq))

\* C10: a subscriber queue holds at most QueueCap (32) events; while nothing
\* has been taken from it, it holds exactly the last QueueCap events published
\* to it, in publish order, however many were published; and a publish is
\* never made to wait.
C10_UndrainedQueueKeepsLatest ==
    /\ \A q \in Queues :
          /\ Len(queues[q]) <= QueueCap
          /\ clients[q].taken = 0 => queues[q] = LastOf(sent[q], QueueCap)
          /\ \A i, j \in 1..Len(queues[q]) : i < j => queues[q][i].ts < queues[q][j].ts
    /\ \A t \in Tasks : tasks[t].pc = "st_publish" /\ Run(t) => ENABLED StartPublish(t)

\* More than QueueCap events published to a queue nobody took anything from.
C10_Witness ==
    /\ clients["q1"].pc = "streaming"
    /\ clients["q1"].taken = 0
    /\ Len(sent["q1"]) > QueueCap
    /\ Len(queues["q1"]) = QueueCap

\* C11: when a subscriber's stream has ended, for whatever reason, its queue
\* is in no simulation's subscriber set and no later publish puts anything
\* into it; and unsubscribing a queue that is not registered changes nothing.
C11_EndedStreamIsUnsubscribed ==
    /\ [](\A q \in Queues : clients[q].pc = "closed" =>
            \A s \in Sims : q \notin subscribers[s])
    /\ [][\A q \in Queues : clients[q].pc = "closed" =>
            queues'[q] = queues[q] /\ sent'[q] = sent[q]]_vars
    /\ [][\A q \in Queues :
            /\ clients[q].pc = "streaming" /\ clients'[q].pc = "closed"
            /\ q \notin subscribers[clients[q].sim]
            => subscribers' = subscribers /\ sub_keys' = sub_keys]_vars

\* A publish by task t returning in this move.
Publishes(t) ==
    tasks[t].pc \in {"a_publish", "st_publish", "i_publish", "aa_publish"}
        /\ tasks'[t].pc = "idle"

\* C20: a publish for a simulation id without subscribers returns without
\* error, creates no entry for the id in the subscriber map and leaves the
\* map and every queue as they were.
C20_PublishWithoutSubscribersIsNoOp ==
    [][\A t \in Tasks : Publishes(t) /\ subscribers[tasks[t].sim] = {} =>
          /\ tasks'[t].err = "none"
          /\ sub_keys' = sub_keys
          /\ subscribers' = subscribers
          /\ queues' = queues]_vars

\* A start request for s1 has published while the only subscriber listens to
\* s2 and still holds nothing but its initial snapshot.
C20_Witness ==
    /\ tasks["t1"].op = "start" /\ tasks["t1"].sim = "s1"
    /\ tasks["t1"].pc = "idle" /\ tasks["t1"].err = "none"
    /\ sub_keys = {"s2"}
    /\ subscribers["s2"] = {"q1"}
    /\ clients["q1"].pc = "streaming" /\ clients["q1"].taken = 0
    /\ Len(queues["q1"]) = 1
    /\ published >= 2

\* C12: whatever the gateway call of the event_generation, action_resolution
\* or world_update handler produces, the handler returns, and the step goes on
\* to apply its result with the handler's next phase; a store failure inside
\* the handler is not a gateway outcome and is left aside.
C12_GatewayOutcomeNeverFailsStep ==
    [][\A t \in Tasks :
          /\ tasks[t].pc = "handler"
          /\ tasks[t].force \in {EVENT_GENERATION, ACTION_RESOLUTION, WORLD_UPDATE}
          /\ CallsGateway(tasks[t].force, tasks[t].loc)
          /\ tasks'[t].pc # "handler"
          /\ tasks'[t].err # "HandlerError"
          => /\ tasks'[t].pc = "apply"
             /\ tasks'[t].err = "none"
             /\ tasks'[t].result.next_phase = Successor(tasks[t].force)]_vars

\* Errors a step raises because the store failed, not because of its input.
StoreFailures == {"HandlerError", "PersistenceFailed", "NotFound"}

\* seq holds consecutive phases of the canonical cycle.
Consecutive(seq) ==
    \A i \in 1..(Len(seq) - 1) : seq[i + 1] = Successor(seq[i])

\* C13: with a single caller, run_cycle on a non-terminal simulation whose
\* current phase p is canonical starts at p, steps once per phase in canonical
\* order, stops after snapshot (six steps at most) and returns the results in
\* that order, failing only when the store fails; on a completed, error or
\* non-canonical-phase simulation it returns the empty list, raises nothing
\* and leaves the simulation as it was.
C13_RunCycleRunsThroughSnapshot ==
    /\ [](\A t \in EngineTasks : tasks[t].op = "cycle" =>
            /\ Consecutive(tasks[t].results)
            /\ Len(tasks[t].results) <= Len(_DEFAULT_PHASE_ORDER))
    /\ [][\A t \in EngineTasks : tasks[t].op = "cycle" =>
            LET me == tasks[t]
                rec == store[me.sim]
            IN
            /\ me.pc = "c_load" /\ rec # NoSim /\ tasks'[t].pc # "c_load" =>
                 IF rec.status \in {"completed", "error", "paused"}
                        \/ ~InOrder(rec.current_phase)
                 THEN /\ tasks'[t].pc = "idle"
                      /\ tasks'[t].err = "none"
                      /\ tasks'[t].results = << >>
                      /\ store' = store
                 ELSE /\ tasks'[t].pc = "e_lock"
                      /\ tasks'[t].force = rec.current_phase
                      /\ me.results # << >> =>
                           rec.current_phase = Successor(me.results[Len(me.results)])
            /\ me.pc = "handler" /\ tasks'[t].pc = "apply" =>
                 tasks'[t].result.executed_phase = me.force
            /\ InStep(t) /\ tasks'[t].pc = "idle" => tasks'[t].err \in StoreFailures
            /\ me.pc = "c_after" /\ tasks'[t].pc = "idle" =>
                 /\ tasks'[t].err = "none"
                 /\ tasks'[t].results[Len(tasks'[t].results)] = SNAPSHOT]_vars

\* Position of a status on the path created -> running -> completed.
StatusRank(status) ==
    CASE status = "created" -> 0
      [] status = "running" -> 1
      [] status = "completed" -> 2
      [] OTHER -> -1

\* C14: a successful initialize step on a created simulation leaves it
\* running with its start time recorded and event_generation as the persisted
\* phase; and no move of a step call takes the persisted status anywhere but
\* forward along created -> running -> completed.
C14_StatusOnlyMovesForward ==
    [][\A s \in EngineSims : store[s] # NoSim =>
          /\ store'[s] # NoSim
          /\ StatusRank(store[s].status) >= 0
          /\ StatusRank(store'[s].status) >= StatusRank(store[s].status)
          /\ \A t \in EngineTasks :
                /\ StepSucceeds(t) /\ tasks[t].sim = s
                /\ tasks[t].result.executed_phase = INITIALIZE
                /\ store[s].status = "created"
                => /\ store'[s].status = "running"
                   /\ store'[s].started_at
                   /\ store'[s].current_phase = EVENT_GENERATION]_vars

\* The first step of a created simulation has returned.
C14_Witness ==
    /\ store["s1"] # NoSim
    /\ store["s1"].status = "running"
    /\ store["s1"].started_at
    /\ store["s1"].current_phase = EVENT_GENERATION
    /\ store["s1"].phase_log = <<INITIALIZE>>
    /\ tasks["t1"].op = "step" /\ tasks["t1"].pc = "idle" /\ tasks["t1"].err = "none"

\* C15: a step on one simulation changes neither another simulation's stored
\* record nor the status of an action or event that the other simulation's
\* pending lists refer to, also when both were seeded from the same scenario;
\* and when a simulation's first action_collection runs, the action seeded
\* for it is still pending.
C15_StepsOnOtherSimulationsDoNotInterfere ==
    /\ [][\A t \in Tasks, b \in Sims :
            InStep(t) /\ tasks[t].sim # b /\ store[b] # NoSim =>
               /\ store'[b] = store[b]
               /\ \A a \in Range(store[b].pending_action_ids) : actions'[a] = actions[a]
               /\ \A e \in Range(store[b].pending_event_ids) : events'[e] = events[e]]_vars
    /\ [](\A t \in Tasks :
            /\ tasks[t].pc = "handler"
            /\ tasks[t].force = ACTION_COLLECTION
            /\ tasks[t].loc.phase_number = 0
            /\ SeedAction \in Range(tasks[t].loc.pending_action_ids)
            => actions[SeedAction] = "pending")

C17_UpdateOfMissingIdChangesNothing ==
    [][\A t \in RepoTasks :
          tasks'[t].op = "update" /\ tasks'[t] # tasks[t] /\ store[tasks'[t].sim] = NoSim
          => /\ tasks'[t].ret = "false"
             /\ tasks'[t].err = "none"
             /\ store' = store
             /\ disk' = disk]_vars

\* update has answered false for s1 while s2 holds a record.
C17_Witness ==
    /\ tasks["t1"].op = "update" /\ tasks["t1"].sim = "s1" /\ tasks["t1"].ret = "false"
    /\ store["s1"] = NoSim
    /\ store["s2"] # NoSim

\* C18: when a create, an update or a delete of a stored id has returned, a
\* store opened freshly on the file holds exactly the in-memory collection,
\* whatever calls, failed ones included, came before.
C18_FileEqualsMemoryAfterMutation ==
    \A t \in RepoTasks :
        /\ tasks[t].op \in {"create", "update", "delete"}
        /\ tasks[t].err = "none"
        /\ tasks[t].ret # "false"
        => _load(disk) = store

\* A delete has returned true after a write had broken the file, and the
\* file holds the record that is left.
C18_Witness ==
    /\ tasks["t1"].op = "delete" /\ tasks["t1"].ret = "true"
    /\ store["s1"] = NoSim /\ store["s2"] # NoSim
    /\ disk # CorruptFile
    /\ _load(disk) = store

C21_ResumeContinuesAtPausedPhase ==
    [][\A t \in Tasks, u \in Tasks :
          /\ tasks[u].op = "resume"
          /\ tasks[t].pc = "e_load" /\ tasks'[t].pc # "e_load"
          /\ tasks[t].sim = tasks[u].sim
          /\ Len(store[tasks[t].sim].phase_log) = tasks[u].iter
          => /\ tasks'[t].pc = "handler"
             /\ tasks'[t].err = "none"
             /\ tasks'[t].force = tasks[u].force]_vars

\* C22: with add-actor requests running alongside steps on the same
\* simulation, an actor id once in the stored active-actor list stays in it,
\* and no write takes the stored phase log or phase_number back behind what a
\* step has persisted.
C22_AddActorSerializedWithSteps ==
    [][\A s \in Sims : store[s] # NoSim /\ store'[s] # NoSim =>
          /\ \A a \in Range(store[s].active_actor_ids) :
                a \in Range(store'[s].active_actor_ids)
          /\ Len(store'[s].phase_log) >= Len(store[s].phase_log)
          /\ store'[s].phase_number >= store[s].phase_number]_vars

\* C23: a simulation whose persisted status is completed keeps that status
\* whatever request is made for it afterwards.
C23_CompletedStaysCompleted ==
    [][\A s \in Sims : store[s] # NoSim /\ store[s].status = "completed"
          => store'[s] # NoSim /\ store'[s].status = "completed"]_vars

\* C24: with no gateway configured, when an action_resolution step has
\* succeeded every action that the simulation's pending-action list names and
\* that exists in the store is completed.
C24_NoGatewayCompletesPendingActions ==
    [][\A t \in Tasks :
          /\ ~llm
          /\ StepSucceeds(t)
          /\ tasks[t].result.executed_phase = ACTION_RESOLUTION
          => \A a \in Range(store'[tasks[t].sim].pending_action_ids) :
                actions'[a] \in {"none", "completed"}]_vars

\* Without a gateway, the seeded action has been resolved and the simulation
\* waits at world_update with the action still listed.
C24_Witness ==
    /\ ~llm
    /\ store["s1"] # NoSim
    /\ store["s1"].current_phase = WORLD_UPDATE
    /\ SeedAction \in Range(store["s1"].pending_action_ids)
    /\ actions[SeedAction] = "completed"
    /\ tasks["t1"].pc = "idle" /\ tasks["t1"].err = "none"

\* C25: with a gateway configured, when the gateway call of action_resolution
\* fails or its reply is malformed, the handler leaves none of the actions in
\* the pending-action list in status pending.
C25_GatewayFailureFallsBackToCompletion ==
    [][\A t \in Tasks :
          /\ llm
          /\ tasks[t].pc = "handler" /\ tasks'[t].pc = "apply"
          /\ tasks[t].force = ACTION_RESOLUTION
          /\ tasks'[t].reply \in {"fail", "malformed"}
          => \A a \in Range(tasks[t].loc.pending_action_ids) : actions'[a] # "pending"]_vars

\* Whether a action id is kept by action_collection.
Kept(a) == actions[a] \notin {"none", "completed", "cancelled"}

\* The kept ids of a list, in the order of the list.
RECURSIVE KeptOf(_)
KeptOf(seq) ==
    IF seq = << >> THEN << >>
    ELSE IF Kept(Head(seq)) THEN <<Head(seq)>> \o KeptOf(Tail(seq))
    ELSE KeptOf(Tail(seq))

\* C26: when an action_collection step has succeeded, the persisted
\* pending-action list is the list persisted before it, in the same order,
\* without the ids whose action is missing, completed or cancelled; nothing
\* else is dropped and nothing is added.
C26_ActionCollectionFiltersInOrder ==
    [][\A t \in Tasks :
          /\ StepSucceeds(t)
          /\ tasks[t].result.executed_phase = ACTION_COLLECTION
          => LET before == store[tasks[t].sim].pending_action_ids
                 after == store'[tasks[t].sim].pending_action_ids
             IN /\ after = KeptOf(before)
                /\ Range(after) \subseteq Range(before)
                /\ \A a \in Range(before) : a \in Range(after) <=> Kept(a)
                /\ actions' = actions]_vars

\* A second action_collection has dropped the completed seeded action and
\* kept the injected one that is still pending.
C26_Witness ==
    /\ store["s1"] # NoSim
    /\ store["s1"].current_phase = ACTION_RESOLUTION
    /\ store["s1"].phase_number = 1
    /\ store["s1"].pending_action_ids = <<1>>
    /\ actions[SeedAction] = "completed"
    /\ actions[1] = "pending"
    /\ tasks["t1"].op = "advance" /\ tasks["t1"].pc = "idle" /\ tasks["t1"].err = "none"

\* C27: when a world_update step has succeeded, the persisted pending-event
\* list is empty and every event that was in the persisted list before the
\* step and exists in the store is resolved, with or without a gateway and for
\* every gateway outcome.
C27_WorldUpdateResolvesAndClears ==
    [][\A t \in Tasks :
          /\ StepSucceeds(t)
          /\ tasks[t].result.executed_phase = WORLD_UPDATE
          => /\ store'[tasks[t].sim].pending_event_ids = << >>
             /\ \A e \in Range(store[tasks[t].sim].pending_event_ids) :
                    events'[e] \in {"none", "resolved"}]_vars

\* With a gateway configured, a world_update has been persisted and the
\* seeded event it found in the list is resolved.
C27_Witness ==
    \E s \in Sims :
        /\ llm
        /\ store[s] # NoSim
        /\ store[s].current_phase = SNAPSHOT
        /\ store[s].pending_event_ids = << >>
        /\ events[SeedEvent] = "resolved"
        /\ \E t \in Tasks : tasks[t].sim = s /\ tasks[t].pc = "idle" /\ tasks[t].err = "none"
                            /\ tasks[t].result # NoResult
                            /\ tasks[t].result.executed_phase = WORLD_UPDATE

\* The handler of task t returning from an event_generation run on a
\* simulation with a registered scenario.
EventGenerationReturns(t) ==
    /\ tasks[t].pc = "handler" /\ tasks'[t].pc = "apply"
    /\ tasks[t].force = EVENT_GENERATION
    /\ tasks[t].loc.scenario_registered

\* C28: the scenario's seed runs in the first successful event_generation step
\* of a simulation with a registered scenario and in no other step: a run seeds
\* exactly when the simulation is not marked seeded, the mark is set by a
\* successful event_generation step and by nothing else, and is never removed;
\* a seeded entity is created only if its id is not in the store, and its id is
\* registered on the simulation either way.
C28_SeedRunsOnceOnFirstEventGeneration ==
    [][/\ \A t \in Tasks :
            EventGenerationReturns(t) /\ ~tasks[t].loc.seeded
            => /\ tasks'[t].loc.seeded
               /\ events'[SeedEvent] = IF events[SeedEvent] = "none" THEN "pending"
                                       ELSE events[SeedEvent]
               /\ actions'[SeedAction] = IF actions[SeedAction] = "none" THEN "pending"
                                         ELSE actions[SeedAction]
               /\ SeedActor \in actors'
               /\ SeedEvent \in Range(tasks'[t].loc.pending_event_ids)
               /\ SeedAction \in Range(tasks'[t].loc.pending_action_ids)
               /\ SeedActor \in Range(tasks'[t].loc.active_actor_ids)
       /\ \A t \in Tasks :
            EventGenerationReturns(t) /\ tasks[t].loc.seeded
            => /\ events'[SeedEvent] = events[SeedEvent]
               /\ actions' = actions
               /\ actors' = actors
       /\ \A s \in Sims :
            store[s] # NoSim /\ store'[s] # NoSim
            => /\ store[s].seeded => store'[s].seeded
               /\ ~store[s].seeded /\ store'[s].seeded
                  => \E t \in Tasks : /\ tasks[t].sim = s
                                      /\ StepSucceeds(t)
                                      /\ tasks[t].result.executed_phase = EVENT_GENERATION]_vars

\* C29: every successful step appends exactly one entry, tagged with the
\* executed phase, at the end of the simulation's persisted phase log; a failed
\* step leaves the log as it was, and nothing else changes it, so the log is
\* the sequence of the successfully executed phases.
C29_PhaseLogIsSuccessfulPhases ==
    [][/\ \A t \in Tasks :
            StepSucceeds(t)
            => store'[tasks[t].sim].phase_log =
                   Append(store[tasks[t].sim].phase_log, tasks[t].result.executed_phase)
       /\ \A s \in Sims :
            store[s] # NoSim /\ store'[s] # NoSim
            /\ store'[s].phase_log # store[s].phase_log
            => \E t \in Tasks : tasks[t].sim = s /\ StepSucceeds(t)]_vars

\* The three snapshot counters of a simulation record.
Counters(sim) == <<sim.snapshot_count, Len(sim.snapshots), sim.phase_number>>

\* C30: in every persisted state of a simulation the snapshot counter, the
\* length of the snapshot history and cycle_number are equal; a successful
\* snapshot step raises each of them by one, and nothing else (no step of
\* another phase, no failed step) changes any of them.
C30_SnapshotCountersMoveTogether ==
    /\ [](\A s \in Sims :
             store[s] # NoSim
             => /\ store[s].snapshot_count = Len(store[s].snapshots)
                /\ store[s].snapshot_count = store[s].phase_number)
    /\ [][/\ \A t \in Tasks :
               StepSucceeds(t) /\ tasks[t].result.executed_phase = SNAPSHOT
               => LET before == Counters(store[tasks[t].sim])
                      after == Counters(store'[tasks[t].sim])
                  IN \A i \in 1..3 : after[i] = before[i] + 1
          /\ \A s \in Sims :
               store[s] # NoSim /\ store'[s] # NoSim
               /\ Counters(store'[s]) # Counters(store[s])
               => \E t \in Tasks : /\ tasks[t].sim = s
                                   /\ StepSucceeds(t)
                                   /\ tasks[t].result.executed_phase = SNAPSHOT]_vars

\* C31: every event_generation run for a simulation whose scenario is
\* registered invokes the scenario's before_phase hook once and its after_phase
\* hook once.
C31_HooksOncePerEventGeneration ==
    [][\A t \in Tasks :
          EventGenerationReturns(t)
          => ScenarioHookCalls(tasks[t].force, tasks[t].loc) =
                 [before_phase |-> 1, after_phase |-> 1]]_vars

\* C32: the next_phase of the PhaseResult a successful step returns is the
\* current_phase the step persisted, also for the snapshot step that completes
\* the simulation.
C32_ReturnedNextPhaseIsPersistedPhase ==
    [][\A t \in Tasks :
          StepSucceeds(t)
          => tasks'[t].result.next_phase = store'[tasks[t].sim].current_phase]_vars

\* The phase-advanced notifications of a queue, in queue order.
PhaseAdvanced(queue) == SelectSeq(queue, LAMBDA e : e.event = "simulation.phase_advanced")

\* C33: in every subscriber's queue the phase-advanced notifications of a
\* simulation stand in the order in which their steps were persisted: none
\* carrying an earlier phase-log state stands behind one carrying a later state.
C33_NotificationsInPersistOrder ==
    \A q \in Queues :
        LET adv == PhaseAdvanced(queues[q]) IN
        \A i, j \in 1..Len(adv) :
            i < j /\ adv[i].simulation_id = adv[j].simulation_id
            => adv[i].log_len <= adv[j].log_len

\* C34: the initial snapshot event of a subscription carries a state at least
\* as recent as every event that stands before it in the subscriber's queue.
C34_InitialSnapshotIsNotStale ==
    \A q \in Queues :
        \A i, j \in 1..Len(queues[q]) :
            i < j /\ queues[q][j].event = "simulation.snapshot"
            => queues[q][i].log_len <= queues[q][j].log_len

\* A request between entering and leaving `async with sim_lock`.
InSimLock(t) ==
    \/ tasks[t].op = "advance"
       /\ tasks[t].pc \in {"a_load", "e_lock", "e_load", "handler", "apply", "a_reload"}
    \/ tasks[t].op = "inject" /\ tasks[t].pc \in {"i_load", "i_write"}

\* The write-back of an injection.
InjectWrites(t) == tasks[t].pc = "i_write" /\ tasks'[t].pc = "i_reload"

\* C35: an injection and an advance on the same simulation are never both
\* inside the simulation's lock; the write-back of a step drops no action that
\* is still pending from the pending-action list, and the write-back of an
\* injection changes nothing of the record but the id lists it appends to.
C35_InjectAndAdvanceExclusive ==
    /\ [](\A t1, t2 \in Tasks :
             t1 # t2 /\ tasks[t1].sim = tasks[t2].sim
             => ~(InSimLock(t1) /\ InSimLock(t2)))
    /\ [][/\ \A t \in Tasks :
               StepSucceeds(t)
               => \A a \in Range(store[tasks[t].sim].pending_action_ids) :
                      actions[a] = "pending"
                      => a \in Range(store'[tasks[t].sim].pending_action_ids)
          /\ \A t \in Tasks :
               InjectWrites(t)
               => LET before == store[tasks[t].sim]
                      after == store'[tasks[t].sim]
                  IN /\ after.current_phase = before.current_phase
                     /\ after.phase_number = before.phase_number
                     /\ after.status = before.status
                     /\ after.phase_log = before.phase_log
                     /\ after.pending_event_ids = before.pending_event_ids
                     /\ \E a \in ActionIds :
                           /\ a \notin Range(before.pending_action_ids)
                           /\ after.pending_action_ids =
                                  Append(before.pending_action_ids, a)]_vars

\* An advance waits for the simulation's lock while an injection holds it and
\* is about to write back a record that earlier steps have moved on.
C35_Witness ==
    \E t1, t2 \in Tasks :
        /\ tasks[t1].op = "inject" /\ tasks[t1].pc = "i_write"
        /\ tasks[t2].op = "advance" /\ tasks[t2].pc = "a_lock"
        /\ tasks[t1].sim = tasks[t2].sim
        /\ sim_locks[tasks[t1].sim] = t1
        /\ Len(store[tasks[t1].sim].phase_log) >= 1

\* C36: every request that has been accepted returns: a start request in
\* flight comes back to idle, and a stream request that has read its simulation
\* gets through subscribing and its initial put.
C36_EveryRequestReturns ==
    /\ \A t \in Tasks : (tasks[t].pc # "idle") ~> (tasks[t].pc = "idle")
    /\ \A q \in Queues :
          (clients[q].pc \in {"subscribe", "initial"})
              ~> (clients[q].pc \notin {"subscribe", "initial"})

\* A simulation record whose cycle_number has reached max_cycles.
AtLimit(sim) == sim # NoSim /\ sim.phase_number >= sim.max_phases

\* C37: the persisted cycle_number of a simulation never exceeds max_cycles;
\* once it has reached max_cycles it stays there, and no phase handler runs for
\* the simulation while it is there.
C37_NoHandlerRunsAtCycleLimit ==
    /\ [](\A s \in Sims :
             store[s] # NoSim => store[s].phase_number <= store[s].max_phases)
    /\ [](\A t \in Tasks :
             tasks[t].pc = "handler" => ~AtLimit(store[tasks[t].sim]))
    /\ [][\A s \in Sims : AtLimit(store[s]) => AtLimit(store'[s])]_vars

\* How often the event stamped ts stands in a queue.
Occurrences(queue, ts) == Cardinality({i \in 1..Len(queue) : queue[i].ts = ts})

\* C38: a publish for a simulation puts its event once, at the end, into the
\* queue of every subscriber registered for that simulation at that moment, and
\* leaves every other queue as it was.
C38_PublishReachesExactlyTheSubscribers ==
    [][\A t \in Tasks :
          Publishes(t)
          => \A q \in Queues :
                IF q \in subscribers[tasks[t].sim]
                THEN /\ queues'[q] # << >>
                     /\ queues'[q][Len(queues'[q])].ts = published
                     /\ queues'[q][Len(queues'[q])].simulation_id = tasks[t].sim
                     /\ Occurrences(queues'[q], published) = 1
                     /\ Len(sent'[q]) = Len(sent[q]) + 1
                ELSE queues'[q] = queues[q] /\ sent'[q] = sent[q]]_vars

\* Two subscribers listen to different simulations; a start request for s1 has
\* published, its event is in the queue of the s1 subscriber behind the initial
\* snapshot, and the s2 subscriber holds its own snapshot only.
C38_Witness ==
    /\ subscribers["s1"] = {"q1"} /\ subscribers["s2"] = {"q2"}
    /\ clients["q1"].pc = "streaming" /\ clients["q2"].pc = "streaming"
    /\ clients["q1"].taken = 0 /\ clients["q2"].taken = 0
    /\ Len(queues["q1"]) = 2
    /\ queues["q1"][2].event = "simulation.started"
    /\ queues["q1"][2].simulation_id = "s1"
    /\ Len(queues["q2"]) = 1
    /\ queues["q2"][1].event = "simulation.snapshot"
    /\ queues["q2"][1].ts < queues["q1"][2].ts

\* A sequence without repeated elements.
NoRepeats(seq) == \A i, j \in 1..Len(seq) : seq[i] = seq[j] => i = j

\* C39: no id stands twice in the active-actor, pending-event or
\* pending-action list of a persisted simulation.
C39_IdListsHaveNoRepeats ==
    \A s \in Sims :
        store[s] # NoSim
        => /\ NoRepeats(store[s].active_actor_ids)
           /\ NoRepeats(store[s].pending_event_ids)
           /\ NoRepeats(store[s].pending_action_ids)

\* The scenario was seeded after one of its actors had injected an action: the
\* actor, registered by the injection already, is listed once, and both the
\* injected and the seeded action are pending.
C39_Witness ==
    /\ store["s1"] # NoSim
    /\ store["s1"].seeded
    /\ store["s1"].active_actor_ids = <<SeedActor>>
    /\ store["s1"].pending_action_ids = <<1, SeedAction>>
    /\ store["s1"].pending_event_ids = <<SeedEvent>>

====
